---- MODULE Spec2Model ----
(***************************************************************************)
(* Background scheduling and notification subsystem of audiobook-tracker   *)
(* (src/tracker/tasks.py): the notification dedup engine (inline trigger,  *)
(* periodic release sweep, periodic new-item sweep) and the job queue with *)
(* its worker.  One series is tracked; its books are catalog identifiers.  *)
(* Every store operation (find, update_one, bulk_write of one document's   *)
(* update) is one atomic step; the three loops interleave between them.    *)
(***************************************************************************)
EXTENDS Integers, Sequences, FiniteSets, TLC

VARIABLES
    \* ---- persisted store: series document, users, library entries
    catalog,     \* upstream: child identifiers the catalog lists for the series
    sBooks,      \* series.books: identifiers of the stored books
    sHidden,     \* identifiers of stored books whose hidden flag is set
    sRaw,        \* series.raw.relationships: child identifiers of the stored snapshot
    sNextAt,     \* series.next_refresh_at
    notif,       \* users.notifications, per user
    subs,        \* users that have a LibraryEntry for the series
    eNew,        \* LibraryEntry.notified_new_asins, per user
    eRel,        \* LibraryEntry.notified_releases, per user
    eInit,       \* LibraryEntry.notified_new_asins_initialized, per user
    \* ---- worker thread executing a refresh_series_probe job
    wpc, wOld, wCur, wChanged, wEnt, wTodo, wOps, wSent, wJobs,
    wParentOk,   \* the probe's parent product load returned a product
    wResult,     \* status and result the probe job was finished with
    \* ---- release-notifier thread (release sweep, then new-item sweep)
    npc, nSer, nEnt, nTodo, nOps, nPending,
    \* ---- observation of the notification channel and of the audit jobs
    delivered,   \* successful sends per (user, kind, book id), saturating
    audit,       \* audit job rows recorded: (user, job kind, status)
    marked,      \* <<user, id>>: ids the inline trigger added to notified_new_asins
    probeRuns, sweepRuns,
    \* ---- job queue, jobs collection and the threads of the TaskWorker
    queue,        \* TaskWorker.queue: job ids in arrival order
    jobStatus,    \* jobs collection: status of each job document ("none": no document)
    jobResult,    \* jobs collection: "ok" / "error" result of each job document
    jobType,      \* the type carried by the queued job
    created,      \* number of jobs enqueued so far
    stopFlag,     \* TaskWorker._stop
    workerThread, \* TaskWorker._thread
    tpc, tJob,    \* per thread object: position in _run and the job it holds
    schedAlive,   \* the scheduler thread is alive
    notifAlive,   \* the release-notifier thread is alive
    \* ---- series collection as the auto-refresh schedule sees it
    serCount,     \* number of series documents
    serFetched,   \* fetched_at of the kept documents (0: missing)
    serNext,      \* next_refresh_at of the kept documents, in seconds
    rpc, rRef, rTotal, rCursor, rOps,   \* a running _rebalance_auto_refresh
    rbRuns,       \* rebalance runs completed
    rbPrevRef,    \* reference time of the last completed run
    rbChanged,    \* fetched_at changed since the current / last run started
    rbPrevDirty,  \* fetched_at changed during the run before the current one
    \* ---- reschedule_all_series
    rsCount,      \* "count" of the result the last call returned
    rsRef,        \* the "now" the last call took
    \* ---- a call of the refresh-all endpoint
    raPc,         \* position of the call
    raCursor,     \* series documents the loop of refresh_all_series has still to visit
    raJobs,       \* <<series, job id>> of the probes the loop has enqueued
    raResult,     \* what refresh_all_series returned
    raResched,    \* job id of the follow-up reschedule_all_series job
    \* ---- the scheduler thread (_scheduler_run) and the clock
    autoOn,       \* settings.auto_refresh_enabled as stored
    scPc,         \* position of the scheduler thread
    serMicro,     \* microsecond part of next_refresh_at of the kept documents
    tkNow,        \* the clock: seconds and microsecond part
    tkEnq,        \* series the last tick enqueued a refresh_series_probe for
    prAt,         \* the time the last handled probe of a series read for its reschedule
    \* ---- inputs of the pure functions
    relA, relB,   \* two relationship lists, the second derived from the first
    relOps,       \* how the second list was derived: "permute", "noise", "id"
    winNow,       \* current time, in hours
    winPub,       \* effective publication time of a book, in hours
    winCand,      \* what the release-window test answered for them
    winBook,      \* the stored fields of the book the publication time is read from
    \* ---- series collection and user library under delete_series
    dsSeries,     \* ids of the Series documents that exist
    dsEntries,    \* LibraryEntry rows: <<username, series_asin>>
    dsQueue,      \* jobs waiting in the worker's queue: [type, asin]
    dsPc,         \* position of the worker in the job it handles
    dsCur,        \* the job the worker handles, with the count delete_one returned
    dsRes,        \* result the last delete_series job was finished with
    dsGone,       \* series a finished delete_series job removed, not subscribed to since
    \* ---- job retention (_maybe_prune_jobs)
    prJobs,       \* _id of the documents of the jobs collection (insertion order)
    prNext,       \* the _id the next inserted job document gets
    prPc,         \* position of the notifier thread inside _maybe_prune_jobs
    prKeep,       \* jobs_to_keep of the running prune
    prDay,        \* the current UTC date
    prLast,       \* _last_jobs_prune_date
    prRuns,       \* prunes that passed the date test on the current date
    \* ---- set_series_books with its deduplication by title
    ddIn,         \* the list of books handed to set_series_books
    ddStored,     \* series.books after the call
    ddPc,         \* "incoming" before the call, "stored" after it
    \* ---- the scheduler tick, the queue of probe jobs and the worker
    pqNext,       \* next_refresh_at of every series
    pqQueue,      \* the refresh_series_probe jobs on the queue, as their series
    pqRun,        \* the series of the probe the worker is handling, or NoJob
    pqBroken,     \* the series whose probes raise
    pqProbed,     \* the series a probe was handled for
    \* ---- the enqueue_* helpers
    enqRet        \* the job id the last enqueue_* call returned, or NoJob

storeVars == <<catalog, sBooks, sHidden, sRaw, sNextAt, notif, subs, eNew, eRel, eInit>>
probeVars == <<wpc, wOld, wCur, wChanged, wEnt, wTodo, wOps, wSent, wJobs,
               wParentOk, wResult>>
sweepVars == <<npc, nSer, nEnt, nTodo, nOps, nPending>>
obsVars   == <<delivered, audit, marked, probeRuns, sweepRuns>>
workerVars == <<queue, jobStatus, jobResult, jobType, created,
                stopFlag, workerThread, tpc, tJob, schedAlive, notifAlive>>
rebalVars == <<serCount, serFetched, serNext, rpc, rRef, rTotal, rCursor, rOps,
               rbRuns, rbPrevRef, rbChanged, rbPrevDirty>>
relVars   == <<relA, relB, relOps>>
winVars   == <<winNow, winPub, winCand, winBook>>
tickVars  == <<autoOn, scPc, serMicro, tkNow, tkEnq, prAt>>
schedVars == <<rsCount, rsRef, raPc, raCursor, raJobs, raResult, raResched,
               autoOn, scPc, serMicro, tkNow, tkEnq, prAt>>
delVars   == <<dsSeries, dsEntries, dsQueue, dsPc, dsCur, dsRes, dsGone>>
pruneVars == <<prJobs, prNext, prPc, prKeep, prDay, prLast, prRuns>>
dedupVars == <<ddIn, ddStored, ddPc>>
pqVars    == <<pqNext, pqQueue, pqRun, pqBroken, pqProbed>>
enqVars   == <<enqRet>>
extVars   == <<delVars, pruneVars, dedupVars, pqVars, enqVars>>
pureVars  == <<relVars, winVars, schedVars, extVars>>
vars      == <<storeVars, probeVars, sweepVars, obsVars, workerVars, rebalVars, pureVars>>
notPure   == <<storeVars, probeVars, sweepVars, obsVars, workerVars, rebalVars>>
notRebalance == <<storeVars, probeVars, sweepVars, obsVars, workerVars, pureVars>>

Max(a, b) == IF a >= b THEN a ELSE b
MaxFetched(f) == CHOOSE m \in {f[s] : s \in DOMAIN f} : \A s \in DOMAIN f : f[s] <= m

----------------------------------------------------------------------------
\* Bounds of the model
MaxProbeRuns == 1
MaxSweepRuns == 2
CountCap     == 2

Books     == {"B1", "B2"}
Users     == {"u1", "u2"}
UserOrder == <<"u1", "u2">>
Kinds     == {"new", "release"}

Sat(n) == IF n < CountCap THEN n + 1 ELSE CountCap

----------------------------------------------------------------------------
\* Time, in hours.  Now is the moment of the run; a date is a day number.
HoursPerDay == 12 + 12
Now         == 4 * HoursPerDay + 6
NoPub       == 0 - 1

\* effective publication time of each catalog book: B1 three days ago, B2 one hour ago
PubDt(b) == IF b = "B1" THEN Now - 3 * HoursPerDay ELSE Now - 1

DateOf(t) == t \div HoursPerDay
Abs(x)    == IF x < 0 THEN -x ELSE x

\* tasks.py 620-631 and 887-891: within one calendar day of now, and not in the future
IsReleaseCandidateElapsed(pub, now) ==
    /\ pub # NoPub
    /\ pub <= now
    /\ now - pub <= HoursPerDay

IsReleaseCandidate(pub, now) ==
    /\ pub # NoPub
    /\ Abs(DateOf(now) - DateOf(pub)) <= 1
    /\ pub <= now

----------------------------------------------------------------------------
\* users.notifications
AllOn    == [enabled |-> TRUE,  notify_new |-> TRUE,  notify_rel |-> TRUE,  urls |-> TRUE]
NewOnly  == [enabled |-> TRUE,  notify_new |-> TRUE,  notify_rel |-> FALSE, urls |-> TRUE]
RelOnly  == [enabled |-> TRUE,  notify_new |-> FALSE, notify_rel |-> TRUE,  urls |-> TRUE]
Disabled == [enabled |-> FALSE, notify_new |-> TRUE,  notify_rel |-> TRUE,  urls |-> TRUE]
NoUrls   == [enabled |-> TRUE,  notify_new |-> TRUE,  notify_rel |-> TRUE,  urls |-> FALSE]
SettingsChoices == {AllOn, NewOnly, RelOnly, Disabled, NoUrls}

NoSeries       == [books |-> {}, hidden |-> {}, rels |-> {}]
SeriesSnapshot == [books |-> sBooks, hidden |-> sHidden, rels |-> sRaw]
Visible(ser)   == ser.books \ ser.hidden

\* the users of a snapshot, in cursor order
RECURSIVE OrderOf(_, _)
OrderOf(seq, S) ==
    IF seq = <<>> THEN <<>>
    ELSE IF Head(seq) \in S THEN <<Head(seq)>> \o OrderOf(Tail(seq), S)
         ELSE OrderOf(Tail(seq), S)

\* $addToSet / $set of notified_new_asins applied to the entries
ApplyAdd(f, ops, field) ==
    [u \in Users |-> f[u] \cup UNION {o.ids : o \in {p \in ops : p.user = u /\ p.field = field}}]

NoCounts == [u \in Users |-> [k \in Kinds |-> [b \in Books |-> 0]]]

\* one ap.notify call of a message naming ids, and the audit row recorded for it
Deliver(d, u, kind, ids, ok) ==
    IF ok THEN [d EXCEPT ![u][kind] = [b \in Books |-> IF b \in ids THEN Sat(@[b]) ELSE @[b]]]
    ELSE d
\* (mutant) the audit job is written as "done" whatever the outcome
RecordJobDone(a, u, kind, success) ==
    a \cup {<<u, kind, "done">>}

\* _record_notification_job: status "done" if success else "error"
RecordJob(a, u, kind, success) ==
    a \cup {<<u, kind, IF success THEN "done" ELSE "error">>}

----------------------------------------------------------------------------
\* Worker: refresh_series_probe with its inline notification trigger

\* _do_refresh_series_probe, tasks.py 316-327: load the stored document
ProbeStart ==
    /\ wpc = "idle"
    /\ probeRuns < MaxProbeRuns
    /\ wOld' = SeriesSnapshot
    /\ wCur' = SeriesSnapshot
    /\ wChanged' = FALSE
    /\ wpc' = "fetch"
    /\ UNCHANGED <<workerVars, rebalVars, pureVars, storeVars, wEnt, wTodo, wOps, wSent, wJobs, wParentOk,
                   wResult, sweepVars, obsVars>>

\* set_series_books (library.py 263-345): an incoming book keeps the hidden flag of
\* the stored book with the same identity, a new one is visible
SetSeriesBooks(books) ==
    /\ sBooks' = books
    /\ sHidden' = sHidden \cap books

\* (mutant) the expansion is done on every probe
NeedsExpansionAlways(changed, oldBooks) == TRUE

\* tasks.py 357: the child expansion is done when the relationships changed or no
\* book is stored
NeedsExpansion(changed, oldBooks) == changed \/ oldBooks = {}

\* tasks.py 336-386: parent-only fetch, relationship comparison, and the full
\* expansion when the relationships changed or no book is stored.  Each upstream
\* load can fail: the parent load of the probe (parentOk), the parent load of the
\* expansion (fullOk, _fetch_series_books_internal returns [], None, None) and every
\* child load (the failed children are omitted from fetched).
ProbeFetch ==
    /\ wpc = "fetch"
    /\ \E parentOk \in BOOLEAN, fullOk \in BOOLEAN, fetched \in SUBSET catalog :
          LET changed == parentOk /\ wOld.rels # catalog
              expand  == NeedsExpansion(changed, wOld.books)
              books   == IF fullOk THEN fetched ELSE {}
          IN  /\ wChanged' = changed
              /\ wParentOk' = parentOk
              /\ IF expand
                 THEN /\ SetSeriesBooks(books)
                      /\ sRaw' = IF fullOk THEN catalog ELSE sRaw
                      /\ wCur' = [books |-> books, hidden |-> sHidden \cap books,
                                  rels |-> catalog]
                      /\ wpc' = "notify"
                 ELSE /\ sRaw' = IF parentOk THEN catalog ELSE sRaw
                      /\ wCur' = wOld
                      /\ wpc' = "finish"
                      /\ UNCHANGED <<sBooks, sHidden>>
    /\ UNCHANGED <<workerVars, rebalVars, pureVars, catalog, sNextAt, notif, subs, eNew, eRel, eInit,
                   wOld, wResult, wEnt, wTodo, wOps, wSent, wJobs, sweepVars, obsVars>>

\* (mutant) the initial-add guard left out
InitialAddGuardMissing(oldAsins) == FALSE

\* tasks.py 849-863: the identifiers of the visible old books; the trigger bails
\* out when there is none
InitialAddGuard(oldAsins) == oldAsins = {}

\* _send_series_notifications, tasks.py 849-907: the diff, the initial-add guard,
\* and the read of the subscribing entries
InlineStart ==
    /\ wpc = "notify"
    /\ wSent' = 0
    /\ wJobs' = 0
    /\ wOps' = {}
    /\ IF InitialAddGuard(Visible(wOld))
       THEN /\ wpc' = "finish"
            /\ UNCHANGED <<wEnt, wTodo>>
       ELSE /\ wEnt' = [u \in subs |-> [new |-> eNew[u], rel |-> eRel[u]]]
            /\ wTodo' = OrderOf(UserOrder, subs)
            /\ wpc' = "inline_loop"
    /\ UNCHANGED <<workerVars, rebalVars, pureVars, storeVars, wOld, wCur, wChanged, wParentOk, wResult,
                   sweepVars, obsVars>>

\* tasks.py 859: identifiers of the visible current books that no visible old book has
NewAsins == Visible(wCur) \ Visible(wOld)

\* tasks.py 881-891: the newly discovered books inside the release window
InlineReleaseCandidates == {b \in NewAsins : IsReleaseCandidate(PubDt(b), Now)}

\* tasks.py 909-1045: one subscriber of the loop.  The two messages are sent one
\* after the other; apprise_error is shared by both audit rows; the $addToSet
\* operations are queued whatever the sends returned.
InlineEntry ==
    /\ wpc = "inline_loop"
    /\ wTodo # <<>>
    /\ LET u       == Head(wTodo)
           n       == notif[u]
           toSend  == IF n.notify_new /\ NewAsins # {} THEN NewAsins \ wEnt[u].new ELSE {}
           pending == IF n.notify_rel /\ InlineReleaseCandidates # {}
                      THEN InlineReleaseCandidates \ wEnt[u].rel ELSE {}
           newMsg  == toSend # {}
           relMsg  == pending # {}
           skip    == \/ ~n.enabled \/ ~n.urls
                      \/ (~n.notify_new /\ ~n.notify_rel)
                      \/ (~newMsg /\ ~relMsg)
       IN  /\ wTodo' = Tail(wTodo)
           /\ IF skip
              THEN UNCHANGED <<wOps, wSent, wJobs, delivered, audit>>
              ELSE \E okNew \in BOOLEAN, okRel \in BOOLEAN :
                      LET success == (newMsg => okNew) /\ (relMsg => okRel)
                          d1 == IF newMsg THEN Deliver(delivered, u, "new", toSend, okNew)
                                ELSE delivered
                          d2 == IF relMsg THEN Deliver(d1, u, "release", pending, okRel)
                                ELSE d1
                          a1 == IF newMsg THEN RecordJob(audit, u, "new", success) ELSE audit
                          a2 == IF relMsg THEN RecordJob(a1, u, "release", success) ELSE a1
                          calls == (IF newMsg THEN 1 ELSE 0) + (IF relMsg THEN 1 ELSE 0)
                      IN  /\ delivered' = d2
                          /\ audit' = a2
                          /\ wSent' = wSent + calls
                          /\ wJobs' = wJobs + calls
                          /\ wOps' = wOps
                               \cup (IF newMsg THEN {[user |-> u, field |-> "new", ids |-> toSend]}
                                     ELSE {})
                               \cup (IF relMsg THEN {[user |-> u, field |-> "release", ids |-> pending]}
                                     ELSE {})
    /\ UNCHANGED <<workerVars, rebalVars, pureVars, storeVars, wpc, wOld, wCur, wChanged, wEnt, wParentOk,
                   wResult, sweepVars,
                   marked, probeRuns, sweepRuns>>

\* tasks.py 1047-1055: bulk_write of the queued $addToSet operations
InlineFlush ==
    /\ wpc = "inline_loop"
    /\ wTodo = <<>>
    /\ eNew' = ApplyAdd(eNew, wOps, "new")
    /\ eRel' = ApplyAdd(eRel, wOps, "release")
    /\ marked' = marked \cup {m \in Users \X Books :
                                 \E o \in wOps : o.user = m[1] /\ o.field = "new" /\ m[2] \in o.ids}
    /\ wpc' = "finish"
    /\ UNCHANGED <<workerVars, rebalVars, pureVars, catalog, sBooks, sHidden, sRaw, sNextAt, notif, subs, eInit,
                   wOld, wCur, wChanged, wEnt, wTodo, wOps, wSent, wJobs, wParentOk,
                   wResult, sweepVars,
                   delivered, audit, probeRuns, sweepRuns>>

\* (mutant) every probe reports a change
FinalChangedAlways(old, cur) == TRUE

\* tasks.py 388-402 and 412: the 'changed' flag of the job result (the stored
\* publication times never differ in this model, so raw_changed is false)
FinalChanged(old, cur) ==
    \/ cur.books \ old.books # {}
    \/ (old.books = {} /\ cur.books # {})

\* no job result written yet
NoResult == [status |-> "none", error |-> FALSE, changed |-> FALSE]

\* tasks.py 411-430: whatever the parent load returned, the series is scheduled
\* one cycle ahead (set_series_next_refresh) and the job is finished through
\* _finish_job with book_count / changed / new_book
ProbeOutcome(parentOk, old, cur, next) ==
    [result |-> [status |-> "done", error |-> FALSE, changed |-> FinalChanged(old, cur)],
     next |-> Now + HoursPerDay]

\* tasks.py 411-430: schedule the next refresh and finish the job
ProbeResult ==
    /\ wpc = "finish"
    /\ LET out == ProbeOutcome(wParentOk, wOld, wCur, sNextAt)
       IN  /\ wResult' = out.result
           /\ sNextAt' = out.next
    /\ wpc' = "result"
    /\ UNCHANGED <<workerVars, rebalVars, pureVars, catalog, sBooks, sHidden, sRaw, notif, subs, eNew, eRel, eInit,
                   wOld, wCur, wChanged, wEnt, wTodo, wOps, wSent, wJobs, wParentOk,
                   sweepVars, obsVars>>

\* tasks.py 154: _handle returns to the worker loop
ProbeFinish ==
    /\ wpc = "result"
    /\ wpc' = "idle"
    /\ probeRuns' = probeRuns + 1
    /\ wOld' = NoSeries
    /\ wCur' = NoSeries
    /\ wChanged' = FALSE
    /\ wEnt' = <<>>
    /\ wTodo' = <<>>
    /\ wOps' = {}
    /\ wSent' = 0
    /\ wJobs' = 0
    /\ wParentOk' = FALSE
    /\ wResult' = NoResult
    /\ UNCHANGED <<workerVars, rebalVars, pureVars, storeVars, sweepVars, delivered, audit, marked, sweepRuns>>

\* _do_fetch_series_books, tasks.py 188-264, as the worker thread runs it for a
\* manual fetch: _fetch_series_books_internal loads the parent and the children
\* (library.py 596-615: [], None, None when the parent cannot be loaded; a child
\* that cannot be loaded is left out), set_series_books stores what came back, the
\* raw parent is stored when there is one, next_refresh_at is set one cycle ahead
\* (the rebalance that follows writes the same time for the single series) and
\* the job is finished with {"book_count": len(books)}.  The handler does not call
\* _send_series_notifications.
FetchBooksRun ==
    /\ wpc = "idle"
    /\ probeRuns < MaxProbeRuns
    /\ \E fullOk \in BOOLEAN, fetched \in SUBSET catalog :
          LET books == IF fullOk THEN fetched ELSE {}
          IN  /\ wOld' = SeriesSnapshot
              /\ SetSeriesBooks(books)
              /\ sRaw' = IF fullOk THEN catalog ELSE sRaw
              /\ wCur' = [books |-> books, hidden |-> sHidden \cap books,
                          rels |-> IF fullOk THEN catalog ELSE sRaw]
              /\ wParentOk' = fullOk
    /\ sNextAt' = Now + HoursPerDay
    /\ wResult' = [status |-> "done", error |-> FALSE, changed |-> FALSE]
    /\ wpc' = "fetched"
    /\ UNCHANGED <<workerVars, rebalVars, pureVars, catalog, notif, subs, eNew, eRel, eInit,
                   wChanged, wEnt, wTodo, wOps, wSent, wJobs, sweepVars, obsVars>>

\* tasks.py 154: _handle returns to the worker loop
FetchBooksFinish ==
    /\ wpc = "fetched"
    /\ wpc' = "idle"
    /\ probeRuns' = probeRuns + 1
    /\ wOld' = NoSeries
    /\ wCur' = NoSeries
    /\ wParentOk' = FALSE
    /\ wResult' = NoResult
    /\ UNCHANGED <<workerVars, rebalVars, pureVars, storeVars, sweepVars, delivered, audit, marked,
                   sweepRuns, wChanged, wEnt, wTodo, wOps, wSent, wJobs>>

FetchBooks == FetchBooksRun \/ FetchBooksFinish

----------------------------------------------------------------------------
\* Release-notifier thread: _release_notifier_run runs the release sweep and then
\* the new-item sweep (tasks.py 482-499)

\* _check_due_release_notifications, tasks.py 554-584: count, prefetch of the users
\* and of the series documents
RelStart ==
    /\ npc = "idle"
    /\ sweepRuns < MaxSweepRuns
    /\ UNCHANGED <<workerVars, rebalVars, pureVars, nOps, nPending>>
    /\ IF subs = {}
       THEN /\ npc' = "new_start"
            /\ UNCHANGED nSer
       ELSE /\ nSer' = SeriesSnapshot
            /\ npc' = "rel_cursor"
    /\ UNCHANGED <<workerVars, rebalVars, pureVars, storeVars, probeVars, nEnt, nTodo, obsVars>>

\* tasks.py 566, 594: the cursor delivers the entries, projected on username,
\* series_asin and notified_releases
RelCursor ==
    /\ npc = "rel_cursor"
    /\ nEnt' = [u \in subs |-> [rel |-> eRel[u]]]
    /\ nTodo' = OrderOf(UserOrder, subs)
    /\ npc' = "rel_loop"
    /\ UNCHANGED <<workerVars, rebalVars, pureVars, storeVars, probeVars, nSer, nOps, nPending, obsVars>>

\* tasks.py 612-631: the stored books inside the release window
ReleaseCandidates(ser) == {b \in ser.books : IsReleaseCandidate(PubDt(b), Now)}

\* tasks.py 679-683: the operation queued for an entry after the send
ReleaseMark(u, ids) == {[user |-> u, field |-> "release", ids |-> ids]}

\* (mutant) the release sweep sends whatever the user's settings are
ReleaseSweepProcessesAnyone(n) == TRUE

\* tasks.py 599-605: the sweep goes on only for a user with notifications enabled,
\* the release flag on and a destination URL
ReleaseSweepProcesses(n) == n.enabled /\ n.notify_rel /\ n.urls

\* tasks.py 594-683: one entry of the release sweep
RelEntry ==
    /\ npc = "rel_loop"
    /\ nTodo # <<>>
    /\ LET u       == Head(nTodo)
           n       == notif[u]
           pending == ReleaseCandidates(nSer) \ nEnt[u].rel
           skip    == \/ ~ReleaseSweepProcesses(n)
                      \/ nSer.books = {}
                      \/ pending = {}
       IN  /\ nTodo' = Tail(nTodo)
           /\ IF skip
              THEN UNCHANGED <<nOps, delivered, audit>>
              ELSE \E ok \in BOOLEAN :
                      /\ delivered' = Deliver(delivered, u, "release", pending, ok)
                      /\ audit' = RecordJob(audit, u, "release", ok)
                      /\ nOps' = nOps \cup ReleaseMark(u, pending)
    /\ UNCHANGED <<workerVars, rebalVars, pureVars, storeVars, probeVars, npc, nSer, nEnt, nPending, marked, probeRuns, sweepRuns>>

\* tasks.py 685-691: bulk_write of the queued $addToSet operations
RelFlush ==
    /\ npc = "rel_loop"
    /\ nTodo = <<>>
    /\ eRel' = ApplyAdd(eRel, nOps, "release")
    /\ npc' = "new_start"
    /\ nSer' = NoSeries
    /\ nEnt' = <<>>
    /\ nOps' = {}
    /\ UNCHANGED <<workerVars, rebalVars, pureVars, catalog, sBooks, sHidden, sRaw, sNextAt, notif, subs, eNew, eInit,
                   probeVars, nTodo, nPending, obsVars>>

\* _check_new_audiobook_notifications, tasks.py 695-724
NewStart ==
    /\ npc = "new_start"
    /\ UNCHANGED nOps
    /\ IF subs = {}
       THEN /\ npc' = "idle"
            /\ sweepRuns' = sweepRuns + 1
            /\ UNCHANGED nSer
       ELSE /\ nSer' = SeriesSnapshot
            /\ npc' = "new_cursor"
            /\ UNCHANGED sweepRuns
    /\ UNCHANGED <<workerVars, rebalVars, pureVars, storeVars, probeVars, nEnt, nTodo, nPending, delivered, audit, marked, probeRuns>>

\* tasks.py 703: the projection of the cursor names username, series_asin,
\* notified_new_asins and notified_releases; notified_new_asins_initialized is
\* not among the projected fields
NewSweepProjection(u) == [new |-> eNew[u], rel |-> eRel[u]]

\* (mutant) every entry taken as initialized
InitializedAlways(entry) == TRUE

\* tasks.py 789: bool(entry.get("notified_new_asins_initialized"))
Initialized(entry) == IF "init" \in DOMAIN entry THEN entry.init ELSE FALSE

NewCursor ==
    /\ npc = "new_cursor"
    /\ nEnt' = [u \in subs |-> NewSweepProjection(u)]
    /\ nTodo' = OrderOf(UserOrder, subs)
    /\ npc' = "new_loop"
    /\ UNCHANGED <<workerVars, rebalVars, pureVars, storeVars, probeVars, nSer, nOps, nPending, obsVars>>

\* (mutant) only the pending identifiers are persisted
NewSweepMarkDelta(u, ser, pending) == {[user |-> u, field |-> "set_new", ids |-> pending]}

\* tasks.py 822-827: what the sweep persists for an entry
NewSweepMark(u, ser, pending) == {[user |-> u, field |-> "set_new", ids |-> Visible(ser)]}

\* tasks.py 734-827: one entry of the new-item sweep
NewEntry ==
    /\ npc = "new_loop"
    /\ nTodo # <<>>
    /\ LET u       == Head(nTodo)
           n       == notif[u]
           known   == nEnt[u].new \cup nEnt[u].rel
           pending == Visible(nSer) \ known
           skip    == \/ ~(n.enabled /\ n.notify_new /\ n.urls)
                      \/ nSer.books = {}
                      \/ Visible(nSer) = {}
       IN  /\ nTodo' = Tail(nTodo)
           /\ IF skip
              THEN UNCHANGED <<nOps, nPending, delivered, audit>>
              ELSE /\ nPending' = [nPending EXCEPT ![u] = pending]
                   /\ nOps' = nOps \cup NewSweepMark(u, nSer, pending)
                   /\ IF pending # {} /\ Initialized(nEnt[u])
                      THEN \E ok \in BOOLEAN :
                              /\ delivered' = Deliver(delivered, u, "new", pending, ok)
                              /\ audit' = RecordJob(audit, u, "new", ok)
                      ELSE UNCHANGED <<delivered, audit>>
    /\ UNCHANGED <<workerVars, rebalVars, pureVars, storeVars, probeVars, npc, nSer, nEnt, marked, probeRuns, sweepRuns>>

\* $set of notified_new_asins and notified_new_asins_initialized
ApplySet(f, ops) ==
    [u \in Users |-> IF \E o \in ops : o.user = u /\ o.field = "set_new"
                     THEN (CHOOSE o \in ops : o.user = u /\ o.field = "set_new").ids
                     ELSE f[u]]

\* tasks.py 829-835: bulk_write of the queued $set operations
NewFlush ==
    /\ npc = "new_loop"
    /\ nTodo = <<>>
    /\ eNew' = ApplySet(eNew, nOps)
    /\ eInit' = [u \in Users |-> eInit[u] \/ \E o \in nOps : o.user = u /\ o.field = "set_new"]
    /\ npc' = "idle"
    /\ sweepRuns' = sweepRuns + 1
    /\ nSer' = NoSeries
    /\ nEnt' = <<>>
    /\ nOps' = {}
    /\ nPending' = [u \in Users |-> {}]
    /\ UNCHANGED <<workerVars, rebalVars, pureVars, catalog, sBooks, sHidden, sRaw, sNextAt, notif, subs, eRel,
                   probeVars, nTodo, delivered, audit, marked, probeRuns>>

----------------------------------------------------------------------------
\* Environment: the upstream catalog and the administrative API

\* the catalog lists one more child of the series
CatalogAdd(b) ==
    /\ b \notin catalog
    /\ catalog' = catalog \cup {b}
    /\ UNCHANGED <<workerVars, rebalVars, pureVars, sBooks, sHidden, sRaw, sNextAt, notif, subs, eNew, eRel, eInit,
                   probeVars, sweepVars, obsVars>>

\* api_series_book_visibility, api.py 626-662
SetHidden(b, h) ==
    /\ b \in sBooks
    /\ (b \in sHidden) # h
    /\ sHidden' = IF h THEN sHidden \cup {b} ELSE sHidden \ {b}
    /\ UNCHANGED <<workerVars, rebalVars, pureVars, catalog, sBooks, sRaw, sNextAt, notif, subs, eNew, eRel, eInit,
                   probeVars, sweepVars, obsVars>>

----------------------------------------------------------------------------
\* ---------------------------------------------------------------------------
\* The job queue and the worker thread (TaskWorker)
\* ---------------------------------------------------------------------------

MaxJobs == 2
\* the enqueue_* calls of the API create MaxJobs jobs at most; a refresh-all call
\* over MaxJobs series needs one more id for its follow-up job
Jobs    == 1..(MaxJobs + 1)
NoJob   == 0 - 1
Threads == {"t1", "t2"}
JobTypes == {"fetch_series_books", "delete_series", "test_job"}

\* threading.Thread.is_alive(): started and its run() not yet returned
IsAlive(pcs, t) == pcs[t] \notin {"unborn", "dead"}

\* (mutant) start() without the liveness test
WorkerRunningIgnored(ref, pcs) == FALSE

\* tasks.py 90: self._thread and self._thread.is_alive()
WorkerRunning(ref, pcs) == ref # "none" /\ IsAlive(pcs, ref)

\* (mutant) the job is read but stays in the queue
QueueAfterGetPeek(q) == q

\* tasks.py 150: SimpleQueue.get() removes the item it returns
QueueAfterGet(q) == Tail(q)

\* (mutant) the job is put at the head of the queue
QueuePutFront(q, j) == <<j>> \o q

\* tasks.py 144-145: SimpleQueue.put() appends the item at the tail
QueuePut(q, j) == Append(q, j)

\* (mutant) the status is written with upsert
MarkRunningUpsert(st, j) == [st EXCEPT ![j] = "running"]

\* tasks.py 168: update_one without upsert touches only an existing document
MarkRunning(st, j) == IF st[j] = "none" THEN st ELSE [st EXCEPT ![j] = "running"]

\* tasks.py 501-503: update_one(..., {"$set": {"status": "done", "result": result}},
\* upsert=True), whatever the result holds
FinishJob(j, res) ==
    /\ jobStatus' = [jobStatus EXCEPT ![j] = "done"]
    /\ jobResult' = [jobResult EXCEPT ![j] = res]

\* How a handler can end (tasks.py 180-305): fetch_series_books catches its own
\* exceptions and finishes the job with an error result; delete_series returns
\* without finishing when the job has no asin and lets a store exception escape;
\* test_job only finishes. Any handler lets an exception of the final store
\* write escape.
HandlerOutcomes(type) ==
    CASE type = "fetch_series_books" -> {"finish_ok", "finish_error", "raise"}
      [] type = "delete_series"      -> {"finish_ok", "return", "raise"}
      [] OTHER                       -> {"finish_ok", "raise"}

\* TaskWorker.__init__ (tasks.py 80-87) and an empty jobs collection
WorkerConstructed ==
    /\ queue = <<>>
    /\ jobStatus = [j \in Jobs |-> "none"]
    /\ jobResult = [j \in Jobs |-> "none"]
    /\ jobType = [j \in Jobs |-> "none"]
    /\ created = 0
    /\ stopFlag = FALSE
    /\ workerThread = "none"
    /\ tpc = [t \in Threads |-> "unborn"]
    /\ tJob = [t \in Threads |-> NoJob]
    /\ schedAlive = FALSE
    /\ notifAlive = FALSE

notWorker == <<storeVars, probeVars, sweepVars, obsVars, rebalVars, pureVars>>

\* start(), tasks.py 89-104; t is the thread object it creates
Start(t) ==
    /\ ~IsAlive(tpc, t)
    /\ \E autoRefresh \in BOOLEAN :
          IF WorkerRunning(workerThread, tpc)
              THEN UNCHANGED <<stopFlag, workerThread, tpc, tJob, schedAlive, notifAlive>>
              ELSE /\ stopFlag' = FALSE
                   /\ workerThread' = t
                   /\ tpc' = [tpc EXCEPT ![t] = "loop"]
                   /\ tJob' = [tJob EXCEPT ![t] = NoJob]
                   /\ schedAlive' = (schedAlive \/ autoRefresh)
                   /\ notifAlive' = TRUE
    /\ UNCHANGED <<queue, jobStatus, jobResult, jobType, created, notWorker>>

\* stop(), tasks.py 106-113: sets the flag; the joins give up after two seconds
Stop ==
    /\ stopFlag' = TRUE
    /\ UNCHANGED <<queue, jobStatus, jobResult, jobType, created,
                   workerThread, tpc, tJob, schedAlive, notifAlive, notWorker>>

\* ensure_scheduler_running(), tasks.py 115-142
EnsureSchedulerRunning ==
    /\ \E autoRefresh \in BOOLEAN :
          IF ~autoRefresh \/ schedAlive
              THEN UNCHANGED <<stopFlag, schedAlive>>
              ELSE /\ stopFlag' = FALSE
                   /\ schedAlive' = TRUE
    /\ UNCHANGED <<queue, jobStatus, jobResult, jobType, created,
                   workerThread, tpc, tJob, notifAlive, notWorker>>

\* _scheduler_run, tasks.py 457 and 477-480: the scheduler thread ends once the
\* stop flag is set
SchedulerExit ==
    /\ schedAlive
    /\ stopFlag
    /\ schedAlive' = FALSE
    /\ UNCHANGED <<queue, jobStatus, jobResult, jobType, created,
                   stopFlag, workerThread, tpc, tJob, notifAlive, notWorker>>

\* _release_notifier_run, tasks.py 485 and 496-499: the notifier thread ends once
\* the stop flag is set and the pass it is in has returned
NotifierExit ==
    /\ notifAlive
    /\ stopFlag
    /\ notifAlive' = FALSE
    /\ UNCHANGED <<queue, jobStatus, jobResult, jobType, created,
                   stopFlag, workerThread, tpc, tJob, schedAlive, notWorker>>

\* enqueue_* helpers, tasks.py 1220-1280: insert the document as queued, then put
\* the job with the inserted id on the queue, then return the id
Enqueue(type) ==
    /\ created < MaxJobs
    /\ created' = created + 1
    /\ jobStatus' = [jobStatus EXCEPT ![created + 1] = "queued"]
    /\ jobResult' = [jobResult EXCEPT ![created + 1] = "none"]
    /\ jobType' = [jobType EXCEPT ![created + 1] = type]
    /\ queue' = QueuePut(queue, created + 1)
    /\ enqRet' = created + 1
    /\ UNCHANGED <<stopFlag, workerThread, tpc, tJob, schedAlive, notifAlive,
                   storeVars, probeVars, sweepVars, obsVars, rebalVars,
                   relVars, winVars, schedVars, delVars, pruneVars, dedupVars, pqVars>>

\* _run, tasks.py 148: the loop test
RunTest(t) ==
    /\ tpc[t] = "loop"
    /\ tpc' = [tpc EXCEPT ![t] = IF stopFlag THEN "dead" ELSE "get"]
    /\ UNCHANGED <<queue, jobStatus, jobResult, jobType, created,
                   stopFlag, workerThread, tJob, schedAlive, notifAlive, notWorker>>

\* _run, tasks.py 149-152: queue.get(timeout=0.5), Empty goes back to the test
RunGet(t) ==
    /\ tpc[t] = "get"
    /\ IF queue = <<>>
          THEN /\ tpc' = [tpc EXCEPT ![t] = "loop"]
               /\ UNCHANGED <<queue, tJob>>
          ELSE /\ tJob' = [tJob EXCEPT ![t] = Head(queue)]
               /\ queue' = QueueAfterGet(queue)
               /\ tpc' = [tpc EXCEPT ![t] = "handle"]
    /\ UNCHANGED <<jobStatus, jobResult, jobType, created,
                   stopFlag, workerThread, schedAlive, notifAlive, notWorker>>

\* _handle, tasks.py 165-168: mark the job running (the store write may raise)
Handle(t) ==
    /\ tpc[t] = "handle"
    /\ \E storeOk \in BOOLEAN :
          IF storeOk
              THEN /\ jobStatus' = MarkRunning(jobStatus, tJob[t])
                   /\ tpc' = [tpc EXCEPT ![t] = "dispatch"]
              ELSE /\ UNCHANGED jobStatus
                   /\ tpc' = [tpc EXCEPT ![t] = "except"]
    /\ UNCHANGED <<queue, jobResult, jobType, created,
                   stopFlag, workerThread, tJob, schedAlive, notifAlive, notWorker>>

\* _handle, tasks.py 169-178: the handler of the job's type runs to its end
Dispatch(t) ==
    /\ tpc[t] = "dispatch"
    /\ jobType[tJob[t]] # "reschedule_all_series"
    /\ \E outcome \in HandlerOutcomes(jobType[tJob[t]]) :
          CASE outcome = "finish_ok" ->
                   /\ FinishJob(tJob[t], "ok")
                   /\ tpc' = [tpc EXCEPT ![t] = "loop"]
                   /\ tJob' = [tJob EXCEPT ![t] = NoJob]
            [] outcome = "finish_error" ->
                   /\ FinishJob(tJob[t], "error")
                   /\ tpc' = [tpc EXCEPT ![t] = "loop"]
                   /\ tJob' = [tJob EXCEPT ![t] = NoJob]
            [] outcome = "return" ->
                   /\ UNCHANGED <<jobStatus, jobResult>>
                   /\ tpc' = [tpc EXCEPT ![t] = "loop"]
                   /\ tJob' = [tJob EXCEPT ![t] = NoJob]
            [] OTHER ->
                   /\ UNCHANGED <<jobStatus, jobResult, tJob>>
                   /\ tpc' = [tpc EXCEPT ![t] = "except"]
    /\ UNCHANGED <<queue, jobType, created,
                   stopFlag, workerThread, schedAlive, notifAlive, notWorker>>

\* _run, tasks.py 155-162: the exception is caught, the job finished with the
\* exception text (a failure of that write is swallowed), the loop goes on
Except(t) ==
    /\ tpc[t] = "except"
    /\ \E storeOk \in BOOLEAN :
          IF storeOk
              THEN FinishJob(tJob[t], "error")
              ELSE UNCHANGED <<jobStatus, jobResult>>
    /\ tpc' = [tpc EXCEPT ![t] = "loop"]
    /\ tJob' = [tJob EXCEPT ![t] = NoJob]
    /\ UNCHANGED <<queue, jobType, created,
                   stopFlag, workerThread, schedAlive, notifAlive, notWorker>>

\* api_clear_jobs, api.py 1553-1557: delete_many({}) on the jobs collection
ClearJobs ==
    /\ \E j \in Jobs : jobStatus[j] # "none"
    /\ jobStatus' = [j \in Jobs |-> "none"]
    /\ jobResult' = [j \in Jobs |-> "none"]
    /\ UNCHANGED <<queue, jobType, created,
                   stopFlag, workerThread, tpc, tJob, schedAlive, notifAlive, notWorker>>

WorkerLoop(t) == RunTest(t) \/ RunGet(t) \/ Handle(t) \/ Dispatch(t) \/ Except(t)

\* ---------------------------------------------------------------------------
\* Auto-refresh schedule: _rebalance_auto_refresh over the series collection
\* ---------------------------------------------------------------------------

\* tasks.py 28
AUTO_REFRESH_CYCLE_SEC == 24 * 60 * 60

MaxSeries        == 3
MaxRebalanceRuns == 2

\* The collection holds serCount documents; the model keeps the documents of the
\* first MaxSeries of them in fetched_at order (all of them when there are no more)
SeriesIds    == 1..MaxSeries
SeriesCounts == (1..MaxSeries) \cup {AUTO_REFRESH_CYCLE_SEC + 1}
Tracked(n)   == {s \in SeriesIds : s <= n}
NoTime       == 0 - 1
RefTimes     == {0, 60}

\* the first document of ids in (fetched_at, natural order)
FirstFetched(f, ids) ==
    CHOOSE s \in ids : \A o \in ids : f[s] < f[o] \/ (f[s] = f[o] /\ s <= o)

\* tasks.py 1141: find({}).sort("fetched_at", 1); a missing fetched_at (0) sorts
\* first, documents with equal fetched_at come in the store's natural order
RECURSIVE FetchedOrder(_, _)
FetchedOrder(f, ids) ==
    IF ids = {} THEN <<>>
    ELSE LET s == FirstFetched(f, ids) IN <<s>> \o FetchedOrder(f, ids \ {s})

\* (mutant) the offset does not advance from one document to the next
RebalanceOffsetFlat(k, total) == Max(AUTO_REFRESH_CYCLE_SEC \div total, 1)

\* tasks.py 1123-1147: interval = cycle / total, offset_acc = k * interval at the
\* k-th document, offset = max(int(offset_acc), 1).  The float accumulation gives
\* the exact quotient for the populations of this model.
RebalanceOffset(k, total) == Max((k * AUTO_REFRESH_CYCLE_SEC) \div total, 1)

\* (mutant) the target is taken from the stored next_refresh_at when there is one
RebalanceTargetShift(ref, stored, offset) ==
    IF stored = NoTime THEN ref + offset ELSE stored + offset

\* tasks.py 1144: target = now + _delta_sec(offset)
RebalanceTarget(ref, stored, offset) == ref + offset

\* tasks.py 1116-1141: reference time, count_documents, interval, sorted cursor
RebalanceStart(t) ==
    /\ rpc = "idle"
    /\ rbRuns < MaxRebalanceRuns
    /\ rRef' = t
    /\ rTotal' = serCount
    /\ rCursor' = FetchedOrder(serFetched, Tracked(serCount))
    /\ rOps' = <<>>
    /\ rbPrevDirty' = rbChanged
    /\ rbChanged' = FALSE
    /\ rpc' = "loop"
    /\ UNCHANGED <<serCount, serFetched, serNext, rbRuns, rbPrevRef, notRebalance>>

\* tasks.py 1143-1147: one document of the cursor
RebalanceAssign ==
    /\ rpc = "loop"
    /\ Len(rOps) < Len(rCursor)
    /\ LET k == Len(rOps) + 1
           s == rCursor[k]
       IN  rOps' = Append(rOps, [id |-> s,
                                 target |-> RebalanceTarget(rRef, serNext[s],
                                                            RebalanceOffset(k, rTotal))])
    /\ UNCHANGED <<serCount, serFetched, serNext, rpc, rRef, rTotal, rCursor,
                   rbRuns, rbPrevRef, rbChanged, rbPrevDirty, notRebalance>>

\* tasks.py 1149-1159: bulk_write of the $set next_refresh_at updates
RebalanceFlush ==
    /\ rpc = "loop"
    /\ Len(rOps) = Len(rCursor)
    /\ serNext' = [s \in SeriesIds |->
                      IF \E i \in 1..Len(rOps) : rOps[i].id = s
                      THEN rOps[CHOOSE i \in 1..Len(rOps) : rOps[i].id = s].target
                      ELSE serNext[s]]
    /\ rbPrevRef' = rRef
    /\ rbRuns' = rbRuns + 1
    /\ rpc' = "idle"
    /\ rRef' = 0
    /\ rTotal' = 0
    /\ rCursor' = <<>>
    /\ rOps' = <<>>
    /\ UNCHANGED <<serCount, serFetched, rbChanged, rbPrevDirty, notRebalance>>

\* touch_series_fetched (library.py 356-358): fetched_at becomes the latest
TouchFetched(s) ==
    /\ s \in Tracked(serCount)
    /\ \A o \in SeriesIds : serFetched[o] <= MaxSeries
    /\ serFetched' = [serFetched EXCEPT ![s] = 1 + MaxFetched(serFetched)]
    /\ rbChanged' = TRUE
    /\ UNCHANGED <<serCount, serNext, rpc, rRef, rTotal, rCursor, rOps,
                   rbRuns, rbPrevRef, rbPrevDirty, notRebalance>>

\* no rebalance run yet
RebalanceIdle ==
    /\ rpc = "idle"
    /\ rRef = 0
    /\ rTotal = 0
    /\ rCursor = <<>>
    /\ rOps = <<>>
    /\ rbRuns = 0
    /\ rbPrevRef = NoTime
    /\ rbChanged = FALSE
    /\ rbPrevDirty = FALSE
    /\ serNext = [s \in SeriesIds |-> NoTime]

\* (mutant) every document gets the offset of the first one
RescheduleOffsetFirst(i, count) == 0

\* tasks.py 1298-1299: offset_sec = int((i / count) * interval_sec) for the i-th
\* document of the cursor, i counted from 0.  The float product gives the exact
\* quotient for the populations of this model.
RescheduleOffset(i, count) == (i * AUTO_REFRESH_CYCLE_SEC) \div count

\* reschedule_all_series, tasks.py 1283-1315: count_documents, then the cursor of
\* find({}) in the store's natural order, one $set next_refresh_at per document,
\* bulk_write, and the count in the result
RescheduleWrites(t) ==
    /\ serNext' = [s \in SeriesIds |->
                      IF s \in Tracked(serCount)
                      THEN t + RescheduleOffset(s - 1, serCount)
                      ELSE serNext[s]]
    /\ rsCount' = serCount
    /\ rsRef' = t

\* a call of reschedule_all_series outside the worker
RescheduleAll(t) ==
    /\ rpc = "idle"
    /\ RescheduleWrites(t)
    /\ UNCHANGED <<serCount, serFetched, rpc, rRef, rTotal, rCursor, rOps,
                   rbRuns, rbPrevRef, rbChanged, rbPrevDirty,
                   raPc, raCursor, raJobs, raResult, raResched, tickVars,
                   relVars, winVars, extVars,
                   storeVars, probeVars, sweepVars, obsVars, workerVars>>

\* the documents of ids in the store's natural order
RECURSIVE NaturalOrder(_)
NaturalOrder(ids) ==
    IF ids = {} THEN <<>>
    ELSE LET s == CHOOSE m \in ids : \A o \in ids : m <= o
         IN  <<s>> \o NaturalOrder(ids \ {s})

\* what neither the refresh-all call nor the worker's reschedule handler writes
notRefreshAll == <<storeVars, probeVars, sweepVars, obsVars, relVars, winVars, extVars>>

\* (mutant) the count does not follow the jobs enqueued
RefreshResultNone(jobs) == [count |-> 0, job_ids |-> jobs]

\* tasks.py 1331: return {"count": len(jobs), "job_ids": jobs}
RefreshResult(jobs) == [count |-> Len(jobs), job_ids |-> jobs]

NoRefreshResult == [count |-> NoJob, job_ids |-> <<>>]

\* api_refresh_all_series calls refresh_all_series (api.py 1361, tasks.py
\* 1320-1322): the cursor of find({}) over the series collection
RefreshAllStart ==
    /\ raPc = "idle"
    /\ serCount <= MaxJobs
    /\ created + serCount + 1 <= MaxJobs + 1
    /\ raCursor' = NaturalOrder(Tracked(serCount))
    /\ raJobs' = <<>>
    /\ raPc' = "probes"
    /\ UNCHANGED <<rsCount, rsRef, raResult, raResched, tickVars,
                   workerVars, rebalVars, notRefreshAll>>

\* tasks.py 1322-1330 with enqueue_refresh_probe (1238-1253): one document of the
\* cursor; the job is inserted as queued, put on the queue and its id kept
RefreshAllProbe ==
    /\ raPc = "probes"
    /\ raCursor # <<>>
    /\ created' = created + 1
    /\ jobStatus' = [jobStatus EXCEPT ![created + 1] = "queued"]
    /\ jobResult' = [jobResult EXCEPT ![created + 1] = "none"]
    /\ jobType' = [jobType EXCEPT ![created + 1] = "refresh_series_probe"]
    /\ queue' = QueuePut(queue, created + 1)
    /\ raJobs' = Append(raJobs, <<Head(raCursor), created + 1>>)
    /\ raCursor' = Tail(raCursor)
    /\ UNCHANGED <<rsCount, rsRef, raPc, raResult, raResched, tickVars,
                   stopFlag, workerThread, tpc, tJob, schedAlive, notifAlive,
                   rebalVars, notRefreshAll>>

\* tasks.py 1331: the cursor is exhausted, refresh_all_series returns
RefreshAllReturn ==
    /\ raPc = "probes"
    /\ raCursor = <<>>
    /\ raResult' = RefreshResult([i \in 1..Len(raJobs) |-> raJobs[i][2]])
    /\ raPc' = "resched"
    /\ UNCHANGED <<rsCount, rsRef, raCursor, raJobs, raResched, tickVars,
                   workerVars, rebalVars, notRefreshAll>>

\* api.py 1363 with enqueue_reschedule_all_series (tasks.py 1334-1346): the
\* follow-up job is inserted as queued and put on the queue
RefreshAllFollowUp ==
    /\ raPc = "resched"
    /\ created' = created + 1
    /\ jobStatus' = [jobStatus EXCEPT ![created + 1] = "queued"]
    /\ jobResult' = [jobResult EXCEPT ![created + 1] = "none"]
    /\ jobType' = [jobType EXCEPT ![created + 1] = "reschedule_all_series"]
    /\ queue' = QueuePut(queue, created + 1)
    /\ raResched' = created + 1
    /\ raPc' = "done"
    /\ UNCHANGED <<rsCount, rsRef, raCursor, raJobs, raResult, tickVars,
                   stopFlag, workerThread, tpc, tJob, schedAlive, notifAlive,
                   rebalVars, notRefreshAll>>

RefreshAll == RefreshAllStart \/ RefreshAllProbe \/ RefreshAllReturn \/ RefreshAllFollowUp

\* _handle, tasks.py 177-178, and _do_reschedule_all_series, 273-286: after the
\* delay reschedule_all_series runs and the job is finished with its result; an
\* exception of reschedule_all_series is caught and the job finished with the
\* error text; an exception of the final store write escapes to _run
DispatchReschedule(t) ==
    /\ tpc[t] = "dispatch"
    /\ jobType[tJob[t]] = "reschedule_all_series"
    /\ \E outcome \in {"finish_ok", "finish_error", "raise"}, now \in RefTimes :
          /\ IF outcome = "finish_error"
                THEN UNCHANGED <<serNext, rsCount, rsRef>>
                ELSE RescheduleWrites(now)
          /\ IF outcome = "raise"
                THEN /\ UNCHANGED <<jobStatus, jobResult, tJob>>
                     /\ tpc' = [tpc EXCEPT ![t] = "except"]
                ELSE /\ FinishJob(tJob[t], IF outcome = "finish_ok" THEN "ok" ELSE "error")
                     /\ tpc' = [tpc EXCEPT ![t] = "loop"]
                     /\ tJob' = [tJob EXCEPT ![t] = NoJob]
    /\ UNCHANGED <<queue, jobType, created, stopFlag, workerThread, schedAlive, notifAlive,
                   serCount, serFetched, rpc, rRef, rTotal, rCursor, rOps,
                   rbRuns, rbPrevRef, rbChanged, rbPrevDirty,
                   raPc, raCursor, raJobs, raResult, raResched, tickVars, notRefreshAll>>

\* ---------------------------------------------------------------------------
\* The scheduler thread: _scheduler_run (tasks.py 440-480) and the settings API
\* ---------------------------------------------------------------------------

MaxDue   == 2
MaxClock == 1

\* tasks.py 466: .limit(10)
DUE_LIMIT == 10

\* A time as _now_dt() reads it: whole seconds and the microsecond part
TickTimes == [sec : 0..MaxClock, micro : 0..1]

\* no probe of the series has been handled
NoStamp == [sec |-> NoTime, micro |-> 0]

\* the order of two times
TimeLeq(a, b) == a.sec < b.sec \/ (a.sec = b.sec /\ a.micro <= b.micro)

\* The order of the strings datetime.isoformat() + "Z" gives for two times
\* (tasks.py 463-464, 1144-1145): isoformat() writes the fraction ".ffffff" only
\* when the microsecond part is not 0, and "." sorts before "Z", so within one
\* second a string without fraction sorts after every string with one
IsoLeq(a, b) ==
    \/ a.sec < b.sec
    \/ /\ a.sec = b.sec
       /\ \/ a.micro = b.micro
          \/ a.micro # 0 /\ b.micro = 0
          \/ a.micro # 0 /\ b.micro # 0 /\ a.micro <= b.micro

\* next_refresh_at of a kept document
NextRefreshAt(s) == [sec |-> serNext[s], micro |-> serMicro[s]]

\* tasks.py 466: find({"next_refresh_at": {"$lte": now_iso}}): a string field not
\* after now_iso; a missing or null field does not match
DueSeries(now) ==
    {s \in Tracked(serCount) : serNext[s] # NoTime /\ IsoLeq(NextRefreshAt(s), now)}

\* tasks.py 466: .sort("next_refresh_at", 1).limit(10): the batches the query can
\* return, documents with equal strings in any order
DueBatches(now) ==
    {D \in SUBSET DueSeries(now) :
        /\ Cardinality(D) = IF Cardinality(DueSeries(now)) <= DUE_LIMIT
                             THEN Cardinality(DueSeries(now)) ELSE DUE_LIMIT
        /\ \A d \in D, e \in DueSeries(now) \ D : IsoLeq(NextRefreshAt(d), NextRefreshAt(e))}

\* threading.Thread.is_alive() of the scheduler thread
SchedulerAlive(pc) == pc \notin {"none", "dead"}

\* the position of s in the sequence order
PosIn(order, s) == CHOOSE k \in 1..Len(order) : order[k] = s

\* _rebalance_auto_refresh(reference = _now_dt()) as one step: every document gets
\* now plus its whole-second offset, so the microsecond part of now
RebalanceWrites(now) ==
    /\ serNext' = [s \in SeriesIds |->
                      IF s \in Tracked(serCount)
                      THEN RebalanceTarget(now.sec, serNext[s],
                              RebalanceOffset(PosIn(FetchedOrder(serFetched, Tracked(serCount)), s),
                                              serCount))
                      ELSE serNext[s]]
    /\ serMicro' = [s \in SeriesIds |->
                      IF s \in Tracked(serCount) THEN now.micro ELSE serMicro[s]]

\* what the scheduler thread and the settings API leave alone
notScheduler == <<storeVars, probeVars, sweepVars, obsVars, relVars, winVars, extVars, prAt,
                  rsCount, rsRef, raPc, raCursor, raJobs, raResult, raResched,
                  queue, jobStatus, jobResult, jobType, created,
                  workerThread, tpc, tJob, schedAlive, notifAlive,
                  serCount, serFetched, rpc, rRef, rTotal, rCursor, rOps,
                  rbRuns, rbPrevRef, rbChanged, rbPrevDirty>>

\* api_save_settings (api.py 173-218) with ensure_scheduler_running(rebalance=True)
\* (tasks.py 115-142): the settings are saved; when the flag went from off to on
\* the collection is rebalanced and, unless a scheduler thread is alive, the stop
\* flag is cleared and a scheduler thread started
SaveSettings(on) ==
    /\ autoOn' = on
    /\ IF ~autoOn /\ on
          THEN /\ RebalanceWrites(tkNow)
               /\ IF SchedulerAlive(scPc)
                     THEN UNCHANGED <<scPc, stopFlag>>
                     ELSE /\ stopFlag' = FALSE
                          /\ scPc' = "init"
          ELSE UNCHANGED <<serNext, serMicro, scPc, stopFlag>>
    /\ UNCHANGED <<tkNow, tkEnq, notScheduler>>

\* _scheduler_run, tasks.py 447-455: the thread loads the settings, returns when
\* auto refresh is off, else rebalances the collection
ScInit ==
    /\ scPc = "init"
    /\ IF autoOn
          THEN /\ RebalanceWrites(tkNow)
               /\ scPc' = "test"
          ELSE /\ scPc' = "exiting"
               /\ UNCHANGED <<serNext, serMicro>>
    /\ UNCHANGED <<autoOn, stopFlag, tkNow, tkEnq, notScheduler>>

\* tasks.py 457: while not self._stop.is_set()
ScTest ==
    /\ scPc = "test"
    /\ scPc' = IF stopFlag THEN "exiting" ELSE "settings"
    /\ UNCHANGED <<autoOn, stopFlag, serNext, serMicro, tkNow, tkEnq, notScheduler>>

\* (mutant) the loop does not look at the setting
AfterSettingsIgnored(enabled) == "tick"

\* tasks.py 460-461: if not settings.auto_refresh_enabled: break
AfterSettings(enabled) == IF enabled THEN "tick" ELSE "exiting"

\* tasks.py 459-461: load_settings(); break when auto refresh is off
ScSettings ==
    /\ scPc = "settings"
    /\ scPc' = AfterSettings(autoOn)
    /\ UNCHANGED <<autoOn, stopFlag, serNext, serMicro, tkNow, tkEnq, notScheduler>>

\* tasks.py 463-472: the due documents are queried and a refresh_series_probe is
\* enqueued for each of the batch (the jobs are kept as the series they are for)
ScTick ==
    /\ scPc = "tick"
    /\ tkEnq' \in DueBatches(tkNow)
    /\ scPc' = "sleep"
    /\ UNCHANGED <<autoOn, stopFlag, serNext, serMicro, tkNow, notScheduler>>

\* tasks.py 477-480: the sleep ends after the interval or when the stop flag is set
ScSleep ==
    /\ scPc = "sleep"
    /\ scPc' = "test"
    /\ UNCHANGED <<autoOn, stopFlag, serNext, serMicro, tkNow, tkEnq, notScheduler>>

\* _scheduler_run returns and the thread ends
ScExit ==
    /\ scPc = "exiting"
    /\ scPc' = "dead"
    /\ UNCHANGED <<autoOn, stopFlag, serNext, serMicro, tkNow, tkEnq, notScheduler>>

Scheduler == ScInit \/ ScTest \/ ScSettings \/ ScTick \/ ScSleep \/ ScExit

\* time passes
ClockAdvance ==
    /\ \E t \in TickTimes :
          /\ TimeLeq(tkNow, t) /\ t # tkNow
          /\ tkNow' = t
    /\ UNCHANGED <<autoOn, scPc, stopFlag, serNext, serMicro, tkEnq, notScheduler>>

\* The times of two days: the seconds 0..MaxClock and the same seconds one refresh
\* cycle later
CycleTimes ==
    [sec : (0..MaxClock) \cup {AUTO_REFRESH_CYCLE_SEC + k : k \in 0..MaxClock}, micro : 0..1]

\* a time plus a whole number of seconds (datetime + timedelta(seconds = n))
PlusSeconds(t, n) == [sec |-> t.sec + n, micro |-> t.micro]

\* _do_refresh_series_probe, tasks.py 385-420, for the job of series s whose
\* resolved parent id is p (p = s when the series is its own parent): fetched_at of
\* s is touched, then next_refresh_at of s and of p becomes
\* (_now_dt() + _delta_sec(AUTO_REFRESH_CYCLE_SEC)).isoformat() + "Z"
ProbeHandled(s, p) ==
    /\ s \in Tracked(serCount) /\ p \in Tracked(serCount)
    /\ tkNow.sec <= MaxClock
    /\ \A o \in SeriesIds : serFetched[o] <= MaxDue
    /\ serFetched' = [serFetched EXCEPT ![s] = 1 + MaxFetched(serFetched)]
    /\ rbChanged' = TRUE
    /\ LET next_when == PlusSeconds(tkNow, AUTO_REFRESH_CYCLE_SEC)
       IN  /\ serNext' = [o \in SeriesIds |-> IF o \in {s, p} THEN next_when.sec ELSE serNext[o]]
           /\ serMicro' = [o \in SeriesIds |-> IF o \in {s, p} THEN next_when.micro ELSE serMicro[o]]
    /\ prAt' = [o \in SeriesIds |-> IF o \in {s, p} THEN tkNow ELSE prAt[o]]
    /\ UNCHANGED <<autoOn, scPc, tkNow, tkEnq, storeVars, probeVars, sweepVars, obsVars,
                   relVars, winVars, extVars, workerVars,
                   rsCount, rsRef, raPc, raCursor, raJobs, raResult, raResched,
                   serCount, rpc, rRef, rTotal, rCursor, rOps, rbRuns, rbPrevRef, rbPrevDirty>>

\* time passes, up to one refresh cycle and more
CycleClock ==
    /\ \E t \in CycleTimes :
          /\ TimeLeq(tkNow, t) /\ t # tkNow
          /\ tkNow' = t
    /\ UNCHANGED <<autoOn, scPc, stopFlag, serNext, serMicro, tkEnq, notScheduler>>

\* no scheduler thread was started
SchedulerIdle ==
    /\ autoOn = FALSE
    /\ scPc = "none"
    /\ serMicro = [s \in SeriesIds |-> 0]
    /\ tkNow = [sec |-> 0, micro |-> 0]
    /\ tkEnq = {}
    /\ prAt = [s \in SeriesIds |-> NoStamp]

\* reschedule_all_series has not been called
ScheduleIdle ==
    /\ rsCount = NoTime
    /\ rsRef = NoTime
    /\ raPc = "idle"
    /\ raCursor = <<>>
    /\ raJobs = <<>>
    /\ raResult = NoRefreshResult
    /\ raResched = NoJob
    /\ SchedulerIdle

\* the collection holds the one series of the notification model
OneSeries ==
    /\ serCount = 1
    /\ serFetched = [s \in SeriesIds |-> 0]

\* ---------------------------------------------------------------------------
\* _relationships_equal (tasks.py 1162-1188)
\* ---------------------------------------------------------------------------

MaxRels == 2

\* A relationship as the catalog returns it: asin, sequence and sort (strings,
\* "" when absent) and one key the comparison does not read.  relationship_type,
\* relationship_to_product and title are the same string in every relationship here.
RelAsins    == {"A1", "A2"}
RelSequence == {"", "1", "1.5"}
RelSort     == {"", "1"}
Relationships == [asin : RelAsins, sequence : RelSequence, sort : RelSort, extra : {0, 1}]

\* tasks.py 1169-1176: the normalised relationship keeps the compared keys only
NormRel(r) == [asin |-> r.asin, sequence |-> r.sequence, sort |-> r.sort]

\* tasks.py 1179-1183: seq = sequence or sort or 0, then int(seq), 0 when int() raises
SeqKey(r) ==
    LET raw == IF r.sequence # "" THEN r.sequence ELSE r.sort
    IN  IF raw = "1" THEN 1 ELSE 0

\* string order of the identifiers
AsinRank(a) == IF a = "A1" THEN 1 ELSE 2

\* tasks.py 1184: order of the sort keys (to, type, asin, seq, title)
KeyLess(x, y) ==
    \/ AsinRank(x.asin) < AsinRank(y.asin)
    \/ (x.asin = y.asin /\ SeqKey(x) < SeqKey(y))

\* list.sort is stable: an element goes behind every element whose key is not greater
RECURSIVE InsertByKey(_, _)
InsertByKey(sorted, x) ==
    IF sorted = <<>> THEN <<x>>
    ELSE IF KeyLess(x, Head(sorted)) THEN <<x>> \o sorted
    ELSE <<Head(sorted)>> \o InsertByKey(Tail(sorted), x)

\* tasks.py 1164-1185: norm_list
RECURSIVE NormList(_)
NormList(lst) ==
    IF lst = <<>> THEN <<>>
    ELSE InsertByKey(NormList(SubSeq(lst, 1, Len(lst) - 1)), NormRel(lst[Len(lst)]))

\* tasks.py 1186
RelationshipsEqual(a, b) == NormList(a) = NormList(b)

\* relationship lists of up to MaxRels entries without the unread key set
RelLists ==
    UNION {[1..n -> {r \in Relationships : r.extra = 0}] : n \in 0..MaxRels}

\* the second list gets two neighbours exchanged
RelSwap(i) ==
    /\ i < Len(relB)
    /\ relB[i] # relB[i + 1]
    /\ relB' = [relB EXCEPT ![i] = relB[i + 1], ![i + 1] = relB[i]]
    /\ relOps' = relOps \cup {"permute"}
    /\ UNCHANGED <<relA, winVars, schedVars, extVars, notPure>>

\* one relationship of the second list gets another value under the unread key
RelNoise(i) ==
    /\ i <= Len(relB)
    /\ relB' = [relB EXCEPT ![i].extra = 1 - relB[i].extra]
    /\ relOps' = relOps \cup {"noise"}
    /\ UNCHANGED <<relA, winVars, schedVars, extVars, notPure>>

\* one relationship of the second list gets another identifier (once)
RelChangeId(i) ==
    /\ i <= Len(relB)
    /\ "id" \notin relOps
    /\ \E a \in RelAsins \ {relB[i].asin} : relB' = [relB EXCEPT ![i].asin = a]
    /\ relOps' = relOps \cup {"id"}
    /\ UNCHANGED <<relA, winVars, schedVars, extVars, notPure>>

MaxDays == 3

\* times of the release-window test: every hour of the days 0..MaxDays
WindowHours == 0..(MaxDays * HoursPerDay + HoursPerDay - 1)

\* A timestamp field of a stored book: missing, the empty string, a string that
\* datetime.fromisoformat rejects, or an ISO timestamp of the hour `at` written
\* with the UTC offset `off` (0: "Z", "+00:00" or no offset)
Stamps ==
    [kind : {"absent", "empty", "garbage"}, at : {0}, off : {0}]
       \cup [kind : {"iso"}, at : {d * HoursPerDay + 6 : d \in 1..MaxDays}, off : {0, 2}]

\* The release_date field of a stored book: missing, a string that is no date, or
\* a string that starts with the date of a day
Dates ==
    [kind : {"absent", "garbage"}, day : {0}] \cup [kind : {"date"}, day : 0..MaxDays]

\* no book under the publication-time function
NoBook == [pub |-> [kind |-> "absent", at |-> 0, off |-> 0],
           raw |-> [kind |-> "absent", at |-> 0, off |-> 0],
           rel |-> [kind |-> "absent", day |-> 0]]

\* `not value`: a missing field or the empty string
Falsy(v) == v.kind \in {"absent", "empty"}

\* _parse_iso_datetime (tasks.py 1070-1079) followed by the conversion to naive UTC
\* (tasks.py 1098-1099): the hour in UTC, nothing when the string is not parsed
ParseIsoUtc(v) == IF v.kind = "iso" THEN v.at - v.off ELSE NoPub

\* tasks.py 1105-1112: release_date[:10] as a date at 00:00
ReleaseMidnight(d) == IF d.kind = "date" THEN d.day * HoursPerDay ELSE NoPub

\* _publication_datetime_utc, tasks.py 1083-1113
PublicationDatetimeUtc(book) ==
    LET raw_pub == IF Falsy(book.pub) THEN book.raw ELSE book.pub
        pub_dt  == IF Falsy(raw_pub) THEN NoPub ELSE ParseIsoUtc(raw_pub)
    IN  IF pub_dt # NoPub THEN pub_dt ELSE ReleaseMidnight(book.rel)

\* tasks.py 619: pub_dt = _publication_datetime_utc(b)
PubResolve ==
    /\ winCand = "unread"
    /\ winPub' = PublicationDatetimeUtc(winBook)
    /\ winCand' = "none"
    /\ UNCHANGED <<winNow, winBook, relVars, schedVars, extVars, notPure>>

\* tasks.py 619-630: the release-window test of the sweep on one book
WindowCheck ==
    /\ winCand = "none"
    /\ winCand' = IF IsReleaseCandidate(winPub, winNow) THEN "yes" ELSE "no"
    /\ UNCHANGED <<winNow, winPub, winBook, relVars, schedVars, extVars, notPure>>

\* no release-window test made
NoWindow ==
    /\ winNow = 0
    /\ winPub = NoPub
    /\ winCand = "none"
    /\ winBook = NoBook

\* no relationship lists under comparison
NoRelLists ==
    /\ relA = <<>>
    /\ relB = <<>>
    /\ relOps = {}

Probe ==
    \/ ProbeStart \/ ProbeFetch \/ InlineStart \/ InlineEntry \/ InlineFlush
    \/ ProbeResult \/ ProbeFinish
Sweep == RelStart \/ RelCursor \/ RelEntry \/ RelFlush
            \/ NewStart \/ NewCursor \/ NewEntry \/ NewFlush

\* ---------------------------------------------------------------------------
\* delete_series (tasks.py 288-305) among the other jobs of the queue
\* ---------------------------------------------------------------------------

MaxQueued == 2

DsSeriesIds == {"S1", "S2"}
DsJobTypes  == {"delete_series", "refresh_series_probe", "fetch_series_books"}
DsJobs      == [type : DsJobTypes, asin : DsSeriesIds]
NoDsJob     == [type |-> "none", asin |-> "none", series_deleted |-> 0]
NoDsRes     == [asin |-> "none", series_deleted |-> 0, library_entries_removed |-> 0]

\* (mutant) the filter on series_asin left out
EntriesOfAny(entries, asin) == entries

\* tasks.py 297: the rows delete_many({"series_asin": asin}) matches
EntriesOf(entries, asin) == {e \in entries : e[2] = asin}

\* what the delete model leaves alone
notDelete == <<storeVars, probeVars, sweepVars, obsVars, workerVars, rebalVars,
               relVars, winVars, schedVars, pruneVars, dedupVars, pqVars, enqVars>>

\* enqueue_delete_series / enqueue_refresh_probe / enqueue_fetch_series_books
\* (tasks.py 1220-1268): the job goes to the end of the queue
DsEnqueue(type, asin) ==
    /\ Len(dsQueue) < MaxQueued
    /\ dsQueue' = Append(dsQueue, [type |-> type, asin |-> asin])
    /\ UNCHANGED <<dsSeries, dsEntries, dsPc, dsCur, dsRes, dsGone, notDelete>>

\* add_to_library (library.py 385-437): the series document is ensured and the
\* entry of the user inserted
DsSubscribe(u, asin) ==
    /\ <<u, asin>> \notin dsEntries
    /\ dsSeries' = dsSeries \cup {asin}
    /\ dsEntries' = dsEntries \cup {<<u, asin>>}
    /\ dsGone' = dsGone \ {asin}
    /\ UNCHANGED <<dsQueue, dsPc, dsCur, dsRes, notDelete>>

\* tasks.py 150 and 164-168: the worker takes the next job
DsTake ==
    /\ dsPc = "idle"
    /\ dsQueue # <<>>
    /\ dsCur' = [type |-> Head(dsQueue).type, asin |-> Head(dsQueue).asin, series_deleted |-> 0]
    /\ dsQueue' = Tail(dsQueue)
    /\ dsPc' = "run"
    /\ UNCHANGED <<dsSeries, dsEntries, dsRes, dsGone, notDelete>>

\* tasks.py 296: series_col.delete_one({"_id": asin})
DeleteSeriesDoc ==
    /\ dsPc = "run"
    /\ dsCur.type = "delete_series"
    /\ dsSeries' = dsSeries \ {dsCur.asin}
    /\ dsCur' = [dsCur EXCEPT !.series_deleted = IF dsCur.asin \in dsSeries THEN 1 ELSE 0]
    /\ dsPc' = "library"
    /\ UNCHANGED <<dsEntries, dsQueue, dsRes, dsGone, notDelete>>

\* tasks.py 297-305: lib_col.delete_many({"series_asin": asin}) and _finish_job
\* with the two counts
DeleteEntries ==
    /\ dsPc = "library"
    /\ LET removed == EntriesOf(dsEntries, dsCur.asin)
       IN  /\ dsEntries' = dsEntries \ removed
           /\ dsRes' = [asin |-> dsCur.asin, series_deleted |-> dsCur.series_deleted,
                        library_entries_removed |-> Cardinality(removed)]
    /\ dsGone' = dsGone \cup {dsCur.asin}
    /\ dsCur' = NoDsJob
    /\ dsPc' = "idle"
    /\ UNCHANGED <<dsSeries, dsQueue, notDelete>>

\* _do_refresh_series_probe (tasks.py 324, 386, 417) and _do_fetch_series_books
\* (tasks.py 199-200, 245) on the series of the job: the document is read with
\* find_one(...) or {}, and touch_series_fetched, set_series_next_refresh and the
\* fallback of set_series_books write with upsert=True (library.py 336-345,
\* 356-363), so the document exists afterwards
DsRefreshJob ==
    /\ dsPc = "run"
    /\ dsCur.type \in {"refresh_series_probe", "fetch_series_books"}
    /\ dsSeries' = dsSeries \cup {dsCur.asin}
    /\ dsCur' = NoDsJob
    /\ dsPc' = "idle"
    /\ UNCHANGED <<dsEntries, dsQueue, dsRes, dsGone, notDelete>>

\* no job of the delete model enqueued, no series kept
DeleteIdle ==
    /\ dsSeries = {}
    /\ dsEntries = {}
    /\ dsQueue = <<>>
    /\ dsPc = "idle"
    /\ dsCur = NoDsJob
    /\ dsRes = NoDsRes
    /\ dsGone = {}

\* ---------------------------------------------------------------------------
\* Job retention: _maybe_prune_jobs (tasks.py 1191-1217), called by the release
\* notifier on every pass (tasks.py 489-493)
\* ---------------------------------------------------------------------------

MaxKeep   == 2
MaxPrJobs == 4

\* what job retention leaves alone
notPrune == <<storeVars, probeVars, sweepVars, obsVars, workerVars, rebalVars,
              relVars, winVars, schedVars, delVars, dedupVars, pqVars, enqVars>>

\* tasks.py 1211: find({}).sort([("_id", -1)]).limit(max_keep)
NewestOf(jobs, n) ==
    {j \in jobs : Cardinality({k \in jobs : k > j}) < n}

\* an enqueue_* operation or _record_notification_job of another thread inserts a
\* job document (tasks.py 1225, 1242, 1261; 517-550)
PrInsert ==
    /\ prNext <= MaxPrJobs
    /\ prJobs' = prJobs \cup {prNext}
    /\ prNext' = prNext + 1
    /\ UNCHANGED <<prPc, prKeep, prDay, prLast, prRuns, notPrune>>

\* tasks.py 1198-1200: nothing is done when the last prune was today
PruneSkip ==
    /\ prPc = "idle"
    /\ prLast = prDay
    /\ UNCHANGED <<pruneVars, notPrune>>

\* tasks.py 1198-1209: the date test, the date is recorded, the settings are
\* loaded and the documents counted
PruneStart ==
    /\ prPc = "idle"
    /\ prLast # prDay
    /\ prLast' = prDay
    /\ prRuns' = prRuns + 1
    /\ prPc' = IF Cardinality(prJobs) <= MaxKeep THEN "idle" ELSE "find"
    /\ UNCHANGED <<prJobs, prNext, prKeep, prDay, notPrune>>

\* tasks.py 1211: the ids to keep are read
PruneFind ==
    /\ prPc = "find"
    /\ prKeep' = NewestOf(prJobs, MaxKeep)
    /\ prPc' = "delete"
    /\ UNCHANGED <<prJobs, prNext, prDay, prLast, prRuns, notPrune>>

\* tasks.py 1212-1213: delete_many({"_id": {"$nin": jobs_to_keep}})
PruneDelete ==
    /\ prPc = "delete"
    /\ prJobs' = prJobs \cap prKeep
    /\ prKeep' = {}
    /\ prPc' = "idle"
    /\ UNCHANGED <<prNext, prDay, prLast, prRuns, notPrune>>

\* midnight UTC passes
PrMidnight ==
    /\ prPc = "idle"
    /\ prDay < MaxDays
    /\ prDay' = prDay + 1
    /\ prRuns' = 0
    /\ UNCHANGED <<prJobs, prNext, prPc, prKeep, prLast, notPrune>>

\* the process has started: no prune yet, no job document
PruneIdle ==
    /\ prJobs = {}
    /\ prNext = 1
    /\ prPc = "idle"
    /\ prKeep = {}
    /\ prDay = 0
    /\ prLast = NoTime
    /\ prRuns = 0

\* ---------------------------------------------------------------------------
\* _deduplicate_books_by_title (library.py 221-260) inside set_series_books
\* ---------------------------------------------------------------------------

MaxIncoming == 3

\* A fetched book: its identifier, its title ("" when missing or empty) and its
\* release_date as a day number (NoTime: missing or not parseable)
DdTitles == {"", "Dune", "dune", "Emma"}
DdBooks  == [asin : {"B1", "B2"}, title : DdTitles, date : {NoTime, 1, 2}]

\* str.lower() on the titles of the model
Lower(t) == IF t = "Dune" THEN "dune" ELSE t

\* (mutant) every book gets the same sort key
DateKeyFlat(b) == 0

\* library.py 252-254: the sort key (rd is not None, rd), (False, datetime.min)
\* without a parseable date, as one number
DateKey(b) == IF b.date = NoTime THEN 0 ELSE b.date

\* library.py 237-243: the books of one title, in list order
RECURSIVE GroupOf(_, _)
GroupOf(books, title) ==
    IF books = <<>> THEN <<>>
    ELSE IF Lower(Head(books).title) = title
         THEN <<Head(books)>> \o GroupOf(Tail(books), title)
         ELSE GroupOf(Tail(books), title)

\* library.py 256-257: group.sort(key, reverse=True)[0]: the sort is stable, so
\* the first book of the group that no other book of it exceeds
Newest(group) ==
    LET i == CHOOSE k \in 1..Len(group) :
                 /\ \A j \in 1..Len(group) : DateKey(group[j]) <= DateKey(group[k])
                 /\ \A j \in 1..(k - 1) : DateKey(group[j]) < DateKey(group[k])
    IN  group[i]

\* library.py 237-259 on the rest of the list: a title gets its entry where it
\* occurs first; books without title are left out
RECURSIVE DedupFrom(_, _, _)
DedupFrom(all, rest, seen) ==
    IF rest = <<>> THEN <<>>
    ELSE LET t == Lower(Head(rest).title)
         IN  IF t = "" \/ t \in seen THEN DedupFrom(all, Tail(rest), seen)
             ELSE <<Newest(GroupOf(all, t))>> \o DedupFrom(all, Tail(rest), seen \cup {t})

\* _deduplicate_books_by_title, library.py 221-260
DeduplicateBooksByTitle(books) == DedupFrom(books, books, {})

\* what the deduplication leaves alone
notDedup == <<storeVars, probeVars, sweepVars, obsVars, workerVars, rebalVars,
              relVars, winVars, schedVars, delVars, pruneVars, pqVars, enqVars>>

\* set_series_books, library.py 263-333: the deduplicated books are stored
DdSetSeriesBooks ==
    /\ ddPc = "incoming"
    /\ ddStored' = DeduplicateBooksByTitle(ddIn)
    /\ ddPc' = "stored"
    /\ UNCHANGED <<ddIn, notDedup>>

\* set_series_books has not been called
DedupIdle ==
    /\ ddIn = <<>>
    /\ ddStored = <<>>
    /\ ddPc = "none"

\* ---------------------------------------------------------------------------
\* The scheduler tick (tasks.py 457-480), enqueue_refresh_probe (1238-1253) and
\* the worker handling the probes (147-178, 307-438), over many series
\* ---------------------------------------------------------------------------

MaxLate    == 1
MaxBacklog == 2

\* DUE_LIMIT series and MaxLate more
PqSeries == 1..(DUE_LIMIT + MaxLate)

\* _now_dt() of the ticks and probes looked at, which lie within one refresh
\* cycle: every next_refresh_at written before is at most this
PqNow == DUE_LIMIT + MaxLate

\* tasks.py 466: find({"next_refresh_at": {"$lte": now_iso}})
PqDue(next) == {s \in PqSeries : next[s] <= PqNow}

\* tasks.py 466: .sort("next_refresh_at", 1): the place of s among the series of S
\* in ascending order
PqRank(next, S, s) ==
    1 + Cardinality({y \in S : next[y] < next[s] \/ (next[y] = next[s] /\ y < s)})

\* tasks.py 466: .limit(10)
PqBatch(next) ==
    LET due == PqDue(next)
        n   == IF Cardinality(due) <= DUE_LIMIT THEN Cardinality(due) ELSE DUE_LIMIT
    IN  [i \in 1..n |-> CHOOSE s \in due : PqRank(next, due, s) = i]

\* what the tick and the probes leave alone
notPq == <<storeVars, probeVars, sweepVars, obsVars, workerVars, rebalVars,
           relVars, winVars, schedVars, delVars, pruneVars, dedupVars, enqVars>>

\* tasks.py 463-472 with enqueue_refresh_probe (1238-1253): one job is inserted
\* and put on the queue for every series of the batch, in the order of the batch
PqTick ==
    /\ Len(pqQueue) + Len(PqBatch(pqNext)) <= MaxBacklog * DUE_LIMIT
    /\ pqQueue' = pqQueue \o PqBatch(pqNext)
    /\ UNCHANGED <<pqNext, pqRun, pqBroken, pqProbed, notPq>>

\* _run, tasks.py 149-157: the worker takes the next job from the queue
PqTake ==
    /\ pqRun = NoJob
    /\ pqQueue # <<>>
    /\ pqRun' = Head(pqQueue)
    /\ pqQueue' = Tail(pqQueue)
    /\ pqProbed' = pqProbed \cup {Head(pqQueue)}
    /\ UNCHANGED <<pqNext, pqBroken, notPq>>

\* _do_refresh_series_probe, tasks.py 414-431: next_refresh_at is set one cycle
\* ahead and the job finished
PqProbeDone ==
    /\ pqRun # NoJob
    /\ pqRun \notin pqBroken
    /\ pqNext' = [pqNext EXCEPT ![pqRun] = PqNow + AUTO_REFRESH_CYCLE_SEC]
    /\ pqRun' = NoJob
    /\ UNCHANGED <<pqQueue, pqBroken, pqProbed, notPq>>

\* _do_refresh_series_probe, tasks.py 432-438: a step of the probe raised; the job
\* is finished with the error and next_refresh_at stays
PqProbeFail ==
    /\ pqRun # NoJob
    /\ pqRun \in pqBroken
    /\ pqRun' = NoJob
    /\ UNCHANGED <<pqNext, pqQueue, pqBroken, pqProbed, notPq>>

\* no series is scheduled and no probe job exists
ProbeQueueIdle ==
    /\ pqNext = [s \in PqSeries |-> NoTime]
    /\ pqQueue = <<>>
    /\ pqRun = NoJob
    /\ pqBroken = {}
    /\ pqProbed = {}

\* no enqueue_* call has returned
EnqueueIdle == enqRet = NoJob

ExtIdle == DeleteIdle /\ PruneIdle /\ DedupIdle /\ ProbeQueueIdle /\ EnqueueIdle

\* the probe, the sweeps and their observations at rest
NotifyAtRest ==
    /\ wpc = "idle"
    /\ wOld = NoSeries
    /\ wCur = NoSeries
    /\ wChanged = FALSE
    /\ wEnt = <<>>
    /\ wTodo = <<>>
    /\ wOps = {}
    /\ wSent = 0
    /\ wJobs = 0
    /\ wParentOk = FALSE
    /\ wResult = NoResult
    /\ sNextAt = Now
    /\ npc = "idle"
    /\ nSer = NoSeries
    /\ nEnt = <<>>
    /\ nTodo = <<>>
    /\ nOps = {}
    /\ nPending = [u \in Users |-> {}]
    /\ delivered = NoCounts
    /\ audit = {}
    /\ marked = {}

IdleNotify ==
    /\ NotifyAtRest
    /\ ExtIdle

IdleThreads ==
    /\ IdleNotify
    /\ WorkerConstructed
    /\ RebalanceIdle
    /\ ScheduleIdle

\* The series was subscribed to by one user; either no book is stored yet (entry as
\* created by the subscription) or B1 is stored and the entry has its baseline.
\* One probe job is to be handled, among the ticks of the notifier.
Init ==
    /\ IdleThreads
    /\ OneSeries
    /\ NoRelLists
    /\ NoWindow
    /\ catalog = {"B1"}
    /\ sBooks \in {{}, {"B1"}}
    /\ sHidden = {}
    /\ sRaw = sBooks
    /\ subs = {"u1"}
    /\ notif \in [Users -> SettingsChoices]
    /\ notif["u2"] = AllOn
    /\ eInit \in [Users -> BOOLEAN]
    /\ eInit["u2"] = FALSE
    /\ sBooks = {} => eInit["u1"] = FALSE
    /\ eNew = [u \in Users |-> IF eInit[u] THEN sBooks ELSE {}]
    /\ eRel = [u \in Users |-> {}]
    /\ probeRuns = MaxProbeRuns - 1
    /\ sweepRuns = 0

Next ==
    \/ Probe
    \/ Sweep
    \/ \E b \in Books : CatalogAdd(b)
    \/ \E b \in Books, h \in BOOLEAN : SetHidden(b, h)

Spec == Init /\ [][Next]_vars

\* The inline trigger of one probe against the sweeps of the notifier thread: B1 is
\* stored and announced, the catalog now also lists B2 (published an hour ago), the
\* subscriber has every notification enabled, one probe and one notifier tick remain.
InitRace ==
    /\ IdleThreads
    /\ OneSeries
    /\ NoRelLists
    /\ NoWindow
    /\ catalog = {"B1", "B2"}
    /\ sBooks = {"B1"}
    /\ sHidden = {}
    /\ sRaw = {"B1"}
    /\ subs = {"u1"}
    /\ notif = [u \in Users |-> AllOn]
    /\ eInit = [u \in Users |-> u = "u1"]
    /\ eNew = [u \in Users |-> IF u = "u1" THEN {"B1"} ELSE {}]
    /\ eRel = [u \in Users |-> {}]
    /\ probeRuns = MaxProbeRuns - 1
    /\ sweepRuns = MaxSweepRuns - 1

NextRace == Probe \/ Sweep

SpecRace == InitRace /\ [][NextRace]_vars

\* Two (or more) notifier ticks in a row over any stored data, with nothing else
\* running: no probe, no catalog change, no API call.
InitSweeps ==
    /\ IdleThreads
    /\ OneSeries
    /\ NoRelLists
    /\ NoWindow
    /\ catalog = Books
    /\ sBooks \in SUBSET Books
    /\ sHidden \in SUBSET sBooks
    /\ sRaw = sBooks
    /\ subs = Users
    /\ notif \in [Users -> {AllOn, Disabled}]
    /\ notif["u2"] = AllOn
    /\ eInit \in [Users -> BOOLEAN]
    /\ eNew \in [Users -> SUBSET sBooks]
    /\ eRel \in [Users -> {{}, {"B2"} \cap sBooks}]
    /\ eNew["u2"] = {} /\ eRel["u2"] = {}
    /\ probeRuns = 0
    /\ sweepRuns = 0

NextSweeps == Sweep

SpecSweeps == InitSweeps /\ [][NextSweeps]_vars

----------------------------------------------------------------------------
\* The worker object right after construction, with a fixed store and the other
\* threads at rest
InitWorker ==
    /\ IdleThreads
    /\ OneSeries
    /\ NoRelLists
    /\ NoWindow
    /\ catalog = {"B1"}
    /\ sBooks = {"B1"}
    /\ sHidden = {}
    /\ sRaw = {"B1"}
    /\ subs = {}
    /\ notif = [u \in Users |-> Disabled]
    /\ eInit = [u \in Users |-> FALSE]
    /\ eNew = [u \in Users |-> {}]
    /\ eRel = [u \in Users |-> {}]
    /\ probeRuns = 0
    /\ sweepRuns = 0

NextWorker ==
    \/ \E t \in Threads : Start(t)
    \/ Stop
    \/ EnsureSchedulerRunning
    \/ SchedulerExit
    \/ NotifierExit
    \/ \E type \in JobTypes : Enqueue(type)
    \/ \E t \in Threads : WorkerLoop(t)
    \/ ClearJobs

SpecWorker == InitWorker /\ [][NextWorker]_vars

\* The application has called start() (app.py 200): the worker thread t1 and the
\* release notifier run, the scheduler runs if auto refresh was enabled. From
\* there jobs are enqueued, the settings API calls ensure_scheduler_running() and
\* shutdown calls stop() (app.py 203); start() is not called again.
InitStop ==
    /\ IdleNotify
    /\ RebalanceIdle
    /\ ScheduleIdle
    /\ OneSeries
    /\ NoRelLists
    /\ NoWindow
    /\ queue = <<>>
    /\ jobStatus = [j \in Jobs |-> "none"]
    /\ jobResult = [j \in Jobs |-> "none"]
    /\ jobType = [j \in Jobs |-> "none"]
    /\ created = 0
    /\ stopFlag = FALSE
    /\ workerThread = "t1"
    /\ tpc = [t \in Threads |-> IF t = "t1" THEN "loop" ELSE "unborn"]
    /\ tJob = [t \in Threads |-> NoJob]
    /\ schedAlive \in BOOLEAN
    /\ notifAlive = TRUE
    /\ catalog = {"B1"}
    /\ sBooks = {"B1"}
    /\ sHidden = {}
    /\ sRaw = {"B1"}
    /\ subs = {}
    /\ notif = [u \in Users |-> Disabled]
    /\ eInit = [u \in Users |-> FALSE]
    /\ eNew = [u \in Users |-> {}]
    /\ eRel = [u \in Users |-> {}]
    /\ probeRuns = 0
    /\ sweepRuns = 0

NextStop ==
    \/ Stop
    \/ EnsureSchedulerRunning
    \/ SchedulerExit
    \/ NotifierExit
    \/ \E type \in JobTypes : Enqueue(type)
    \/ \E t \in Threads : WorkerLoop(t)

\* every thread that is alive keeps being scheduled by the interpreter
FairStop ==
    /\ \A t \in Threads : WF_vars(WorkerLoop(t))
    /\ WF_vars(SchedulerExit)
    /\ WF_vars(NotifierExit)

SpecStop == InitStop /\ [][NextStop]_vars /\ FairStop


\* One subscriber with both notification kinds on, one stored book, and a second
\* book (published an hour ago) listed upstream; two probes run, nothing else
InitFlow ==
    /\ IdleThreads
    /\ OneSeries
    /\ NoRelLists
    /\ NoWindow
    /\ catalog = {"B1", "B2"}
    /\ sBooks = {"B1"}
    /\ sHidden = {}
    /\ sRaw = {"B1"}
    /\ subs = Users
    /\ notif \in [Users -> SettingsChoices]
    /\ notif["u1"] = AllOn
    /\ eInit = [u \in Users |-> TRUE]
    /\ eNew = [u \in Users |-> {"B1"}]
    /\ eRel = [u \in Users |-> {}]
    /\ probeRuns = MaxProbeRuns - 2
    /\ sweepRuns = 0

NextFlow == Probe

SpecFlow == InitFlow /\ [][NextFlow]_vars

\* Manual fetches of a series with B1 stored and announced to its two subscribers,
\* while the catalog lists B1 and gets B2 added; nothing else runs
InitFetch ==
    /\ IdleThreads
    /\ OneSeries
    /\ NoRelLists
    /\ NoWindow
    /\ catalog = {"B1"}
    /\ sBooks = {"B1"}
    /\ sHidden = {}
    /\ sRaw = {"B1"}
    /\ subs = Users
    /\ notif \in [Users -> SettingsChoices]
    /\ eInit = [u \in Users |-> TRUE]
    /\ eNew = [u \in Users |-> {"B1"}]
    /\ eRel = [u \in Users |-> {}]
    /\ probeRuns = 0
    /\ sweepRuns = 0

NextFetch ==
    \/ FetchBooks
    \/ \E b \in Books : CatalogAdd(b)

SpecFetch == InitFetch /\ [][NextFetch]_vars

\* Two subscribers of the series with every notification on: one probe with its
\* inline trigger and one pass of the notifier interleave; the series is stored
\* with or without the book B2 that lies inside the release window.
InitNotify ==
    /\ IdleThreads
    /\ OneSeries
    /\ NoRelLists
    /\ NoWindow
    /\ catalog = Books
    /\ sBooks \in {{"B1"}, Books}
    /\ sHidden = {}
    /\ sRaw = sBooks
    /\ subs = Users
    /\ notif = [u \in Users |-> AllOn]
    /\ eInit = [u \in Users |-> TRUE]
    /\ eNew = [u \in Users |-> {"B1"}]
    /\ eRel = [u \in Users |-> {}]
    /\ probeRuns = MaxProbeRuns - 1
    /\ sweepRuns = MaxSweepRuns - 1

NextNotify == Probe \/ Sweep

SpecNotify == InitNotify /\ [][NextNotify]_vars

\* A collection of serCount series, never fetched or fetched once, no schedule yet
InitRebalance ==
    /\ IdleThreads
    /\ NoRelLists
    /\ NoWindow
    /\ serCount \in SeriesCounts
    /\ serFetched \in [SeriesIds -> {0, 1}]
    /\ \A s \in SeriesIds \ Tracked(serCount) : serFetched[s] = 0
    /\ catalog = {"B1"}
    /\ sBooks = {"B1"}
    /\ sHidden = {}
    /\ sRaw = {"B1"}
    /\ subs = {}
    /\ notif = [u \in Users |-> Disabled]
    /\ eInit = [u \in Users |-> FALSE]
    /\ eNew = [u \in Users |-> {}]
    /\ eRel = [u \in Users |-> {}]
    /\ probeRuns = 0
    /\ sweepRuns = 0

NextRebalance ==
    \/ \E t \in RefTimes : RebalanceStart(t)
    \/ RebalanceAssign
    \/ RebalanceFlush
    \/ \E s \in SeriesIds : TouchFetched(s)

SpecRebalance == InitRebalance /\ [][NextRebalance]_vars

\* reschedule_all_series called on a collection whose documents are fetched in
\* between
NextReschedule ==
    \/ \E t \in RefTimes : RescheduleAll(t)
    \/ \E s \in SeriesIds : TouchFetched(s)

SpecReschedule == InitRebalance /\ [][NextReschedule]_vars

\* One call of the refresh-all endpoint on a collection of up to MaxJobs series,
\* while the worker is started, runs its jobs and is stopped
InitRefreshAll ==
    /\ IdleThreads
    /\ NoRelLists
    /\ NoWindow
    /\ serCount \in 1..MaxJobs
    /\ serFetched = [s \in SeriesIds |-> 0]
    /\ catalog = {"B1"}
    /\ sBooks = {"B1"}
    /\ sHidden = {}
    /\ sRaw = {"B1"}
    /\ subs = {}
    /\ notif = [u \in Users |-> Disabled]
    /\ eInit = [u \in Users |-> FALSE]
    /\ eNew = [u \in Users |-> {}]
    /\ eRel = [u \in Users |-> {}]
    /\ probeRuns = 0
    /\ sweepRuns = 0

NextRefreshAll ==
    \/ \E t \in Threads : Start(t)
    \/ Stop
    \/ RefreshAll
    \/ \E t \in Threads : WorkerLoop(t)
    \/ \E t \in Threads : DispatchReschedule(t)

SpecRefreshAll == InitRefreshAll /\ [][NextRefreshAll]_vars

\* start() has run: a scheduler thread is in its loop if auto refresh was enabled.
\* Up to MaxDue series carry a next_refresh_at written earlier (or none); the
\* settings are saved, the loop ticks, stop() is called and time passes
InitScheduler ==
    /\ IdleNotify
    /\ WorkerConstructed
    /\ NoRelLists
    /\ NoWindow
    /\ rsCount = NoTime /\ rsRef = NoTime
    /\ raPc = "idle" /\ raCursor = <<>> /\ raJobs = <<>>
    /\ raResult = NoRefreshResult /\ raResched = NoJob
    /\ rpc = "idle" /\ rRef = 0 /\ rTotal = 0 /\ rCursor = <<>> /\ rOps = <<>>
    /\ rbRuns = 0 /\ rbPrevRef = NoTime /\ rbChanged = FALSE /\ rbPrevDirty = FALSE
    /\ serCount \in 1..MaxDue
    /\ serFetched = [s \in SeriesIds |-> 0]
    /\ serNext \in [SeriesIds -> {NoTime} \cup (0..MaxClock)]
    /\ serMicro \in [SeriesIds -> 0..1]
    /\ \A s \in SeriesIds :
          (s \notin Tracked(serCount) \/ serNext[s] = NoTime)
             => (serNext[s] = NoTime /\ serMicro[s] = 0)
    /\ autoOn \in BOOLEAN
    /\ scPc = IF autoOn THEN "test" ELSE "none"
    /\ tkNow \in TickTimes
    /\ tkEnq = {}
    /\ prAt = [s \in SeriesIds |-> NoStamp]
    /\ catalog = {"B1"}
    /\ sBooks = {"B1"}
    /\ sHidden = {}
    /\ sRaw = {"B1"}
    /\ subs = {}
    /\ notif = [u \in Users |-> Disabled]
    /\ eInit = [u \in Users |-> FALSE]
    /\ eNew = [u \in Users |-> {}]
    /\ eRel = [u \in Users |-> {}]
    /\ probeRuns = 0
    /\ sweepRuns = 0

NextScheduler ==
    \/ \E on \in BOOLEAN : SaveSettings(on)
    \/ Scheduler
    \/ Stop
    \/ ClockAdvance

SpecScheduler == InitScheduler /\ [][NextScheduler]_vars

\* The scheduler loop runs with auto refresh enabled over a collection without a
\* schedule yet; probes are handled, the settings are saved and a day passes
InitCycle ==
    /\ IdleNotify
    /\ WorkerConstructed
    /\ RebalanceIdle
    /\ NoRelLists
    /\ NoWindow
    /\ rsCount = NoTime /\ rsRef = NoTime
    /\ raPc = "idle" /\ raCursor = <<>> /\ raJobs = <<>>
    /\ raResult = NoRefreshResult /\ raResched = NoJob
    /\ serCount \in 1..MaxDue
    /\ serFetched = [s \in SeriesIds |-> 0]
    /\ serMicro = [s \in SeriesIds |-> 0]
    /\ autoOn = TRUE
    /\ scPc = "test"
    /\ tkNow \in [sec : {0}, micro : 0..1]
    /\ tkEnq = {}
    /\ prAt = [s \in SeriesIds |-> NoStamp]
    /\ catalog = {"B1"}
    /\ sBooks = {"B1"}
    /\ sHidden = {}
    /\ sRaw = {"B1"}
    /\ subs = {}
    /\ notif = [u \in Users |-> Disabled]
    /\ eInit = [u \in Users |-> FALSE]
    /\ eNew = [u \in Users |-> {}]
    /\ eRel = [u \in Users |-> {}]
    /\ probeRuns = 0
    /\ sweepRuns = 0

NextCycle ==
    \/ \E on \in BOOLEAN : SaveSettings(on)
    \/ Scheduler
    \/ \E s \in SeriesIds, p \in SeriesIds : ProbeHandled(s, p)
    \/ CycleClock

SpecCycle == InitCycle /\ [][NextCycle]_vars

\* Two equal relationship lists; the second is then permuted, given other unread
\* keys, or given one other identifier
InitRel ==
    /\ IdleThreads
    /\ OneSeries
    /\ NoWindow
    /\ relA \in RelLists
    /\ relB = relA
    /\ relOps = {}
    /\ catalog = {"B1"}
    /\ sBooks = {"B1"}
    /\ sHidden = {}
    /\ sRaw = {"B1"}
    /\ subs = {}
    /\ notif = [u \in Users |-> Disabled]
    /\ eInit = [u \in Users |-> FALSE]
    /\ eNew = [u \in Users |-> {}]
    /\ eRel = [u \in Users |-> {}]
    /\ probeRuns = 0
    /\ sweepRuns = 0

NextRel ==
    \/ \E i \in 1..MaxRels : RelSwap(i)
    \/ \E i \in 1..MaxRels : RelNoise(i)
    \/ \E i \in 1..MaxRels : RelChangeId(i)

SpecRel == InitRel /\ [][NextRel]_vars

\* A book with any effective publication time (or none) and a sweep at any hour of
\* the second day
InitWindow ==
    /\ IdleThreads
    /\ OneSeries
    /\ NoRelLists
    /\ winNow \in {h \in WindowHours : DateOf(h) = 2}
    /\ winPub \in WindowHours \cup {NoPub}
    /\ winCand = "none"
    /\ winBook = NoBook
    /\ catalog = {"B1"}
    /\ sBooks = {"B1"}
    /\ sHidden = {}
    /\ sRaw = {"B1"}
    /\ subs = {}
    /\ notif = [u \in Users |-> Disabled]
    /\ eInit = [u \in Users |-> FALSE]
    /\ eNew = [u \in Users |-> {}]
    /\ eRel = [u \in Users |-> {}]
    /\ probeRuns = 0
    /\ sweepRuns = 0

NextWindow == WindowCheck

\* A stored book with any combination of publication_datetime,
\* raw.publication_datetime and release_date, read by a sweep on the last day
InitPub ==
    /\ IdleThreads
    /\ OneSeries
    /\ NoRelLists
    /\ winNow = MaxDays * HoursPerDay + 12
    /\ winPub = NoPub
    /\ winCand = "unread"
    /\ winBook \in [pub : Stamps, raw : Stamps, rel : Dates]
    /\ catalog = {"B1"}
    /\ sBooks = {"B1"}
    /\ sHidden = {}
    /\ sRaw = {"B1"}
    /\ subs = {}
    /\ notif = [u \in Users |-> Disabled]
    /\ eInit = [u \in Users |-> FALSE]
    /\ eNew = [u \in Users |-> {}]
    /\ eRel = [u \in Users |-> {}]
    /\ probeRuns = 0
    /\ sweepRuns = 0

NextPub == PubResolve \/ WindowCheck

SpecPub == InitPub /\ [][NextPub]_vars

\* Two series, each with any subscribers; delete, probe and fetch jobs are enqueued
\* and handled by the worker while users subscribe
InitDelete ==
    /\ NotifyAtRest
    /\ WorkerConstructed
    /\ RebalanceIdle
    /\ ScheduleIdle
    /\ OneSeries
    /\ NoRelLists
    /\ NoWindow
    /\ dsSeries = DsSeriesIds
    /\ dsEntries \in SUBSET (Users \X DsSeriesIds)
    /\ dsQueue = <<>>
    /\ dsPc = "idle"
    /\ dsCur = NoDsJob
    /\ dsRes = NoDsRes
    /\ dsGone = {}
    /\ PruneIdle
    /\ DedupIdle
    /\ ProbeQueueIdle
    /\ EnqueueIdle
    /\ catalog = {"B1"}
    /\ sBooks = {"B1"}
    /\ sHidden = {}
    /\ sRaw = {"B1"}
    /\ subs = {}
    /\ notif = [u \in Users |-> Disabled]
    /\ eInit = [u \in Users |-> FALSE]
    /\ eNew = [u \in Users |-> {}]
    /\ eRel = [u \in Users |-> {}]
    /\ probeRuns = 0
    /\ sweepRuns = 0

NextDelete ==
    \/ \E type \in DsJobTypes, asin \in DsSeriesIds : DsEnqueue(type, asin)
    \/ \E u \in Users, asin \in DsSeriesIds : DsSubscribe(u, asin)
    \/ DsTake
    \/ DeleteSeriesDoc
    \/ DeleteEntries
    \/ DsRefreshJob

SpecDelete == InitDelete /\ [][NextDelete]_vars

\* The notifier calls _maybe_prune_jobs on its passes while other threads insert
\* job documents and the days go by
InitPrune ==
    /\ NotifyAtRest
    /\ WorkerConstructed
    /\ RebalanceIdle
    /\ ScheduleIdle
    /\ OneSeries
    /\ NoRelLists
    /\ NoWindow
    /\ DeleteIdle
    /\ PruneIdle
    /\ DedupIdle
    /\ ProbeQueueIdle
    /\ EnqueueIdle
    /\ catalog = {"B1"}
    /\ sBooks = {"B1"}
    /\ sHidden = {}
    /\ sRaw = {"B1"}
    /\ subs = {}
    /\ notif = [u \in Users |-> Disabled]
    /\ eInit = [u \in Users |-> FALSE]
    /\ eNew = [u \in Users |-> {}]
    /\ eRel = [u \in Users |-> {}]
    /\ probeRuns = 0
    /\ sweepRuns = 0

NextPrune ==
    \/ PrInsert
    \/ PruneSkip
    \/ PruneStart
    \/ PruneFind
    \/ PruneDelete
    \/ PrMidnight

SpecPrune == InitPrune /\ [][NextPrune]_vars

\* set_series_books called with any list of up to MaxIncoming fetched books
InitDedup ==
    /\ NotifyAtRest
    /\ WorkerConstructed
    /\ RebalanceIdle
    /\ ScheduleIdle
    /\ OneSeries
    /\ NoRelLists
    /\ NoWindow
    /\ DeleteIdle
    /\ PruneIdle
    /\ ProbeQueueIdle
    /\ EnqueueIdle
    /\ ddIn \in UNION {[1..n -> DdBooks] : n \in 0..MaxIncoming}
    /\ ddStored = <<>>
    /\ ddPc = "incoming"
    /\ catalog = {"B1"}
    /\ sBooks = {"B1"}
    /\ sHidden = {}
    /\ sRaw = {"B1"}
    /\ subs = {}
    /\ notif = [u \in Users |-> Disabled]
    /\ eInit = [u \in Users |-> FALSE]
    /\ eNew = [u \in Users |-> {}]
    /\ eRel = [u \in Users |-> {}]
    /\ probeRuns = 0
    /\ sweepRuns = 0

NextDedup == DdSetSeriesBooks

SpecDedup == InitDedup /\ [][NextDedup]_vars

\* Every series is due, each with its own next_refresh_at; the probes of the
\* earliest k series raise, for any k
InitProbes ==
    /\ NotifyAtRest
    /\ WorkerConstructed
    /\ RebalanceIdle
    /\ ScheduleIdle
    /\ OneSeries
    /\ NoRelLists
    /\ NoWindow
    /\ DeleteIdle
    /\ PruneIdle
    /\ DedupIdle
    /\ EnqueueIdle
    /\ pqNext = [s \in PqSeries |-> s]
    /\ pqQueue = <<>>
    /\ pqRun = NoJob
    /\ pqBroken \in {1..k : k \in 0..(DUE_LIMIT + MaxLate)}
    /\ pqProbed = {}
    /\ catalog = {"B1"}
    /\ sBooks = {"B1"}
    /\ sHidden = {}
    /\ sRaw = {"B1"}
    /\ subs = {}
    /\ notif = [u \in Users |-> Disabled]
    /\ eInit = [u \in Users |-> FALSE]
    /\ eNew = [u \in Users |-> {}]
    /\ eRel = [u \in Users |-> {}]
    /\ probeRuns = 0
    /\ sweepRuns = 0

NextProbes == PqTick \/ PqTake \/ PqProbeDone \/ PqProbeFail

SpecProbes == InitProbes /\ [][NextProbes]_vars

\* The scheduler thread ticks every minute and the worker thread takes and handles
\* the jobs of its queue: neither waits forever
FairProbes ==
    /\ WF_vars(PqTick)
    /\ WF_vars(PqTake)
    /\ WF_vars(PqProbeDone)
    /\ WF_vars(PqProbeFail)

SpecProbesFair == InitProbes /\ [][NextProbes]_vars /\ FairProbes

SpecWindow == InitWindow /\ [][NextWindow]_vars

\* C1: for any interleaving of the inline trigger and the release sweep on the
\* same entry and book id, at most one 'release' notification is delivered for
\* that (entry, book id) pair.
C1_AtMostOneRelease ==
    \A u \in Users, b \in Books : delivered[u]["release"][b] <= 1

\* C2: once the inline trigger and the new-item sweep have both finished, every id
\* the inline trigger wrote to notifiedNewAsins is still in it, and at most one
\* 'new item' notification was delivered per book id.
C2_InlineIdSurvivesSweep ==
    (wpc = "idle" /\ npc = "idle") =>
        /\ \A m \in marked : m[2] \in eNew[m[1]]
        /\ \A u \in Users, b \in Books : delivered[u]["new"][b] <= 1

\* C3: notifiedNewAsins and notifiedReleases of every entry only grow under probes
\* and sweeps, also when a book becomes hidden (no step of the model removes the
\* entry or a book explicitly).
C3_NotifiedSetsOnlyGrow ==
    [][\A u \in Users : eNew[u] \subseteq eNew'[u] /\ eRel[u] \subseteq eRel'[u]]_vars

\* C4: an identifier enters notifiedReleases, or is added to notifiedNewAsins by
\* the inline trigger, only when a message naming it was sent successfully: after
\* a failed send the identifiers of the message are not recorded.
C4_RecordedOnlyAfterSuccess ==
    /\ \A u \in Users, b \in Books : b \in eRel[u] => delivered[u]["release"][b] >= 1
    /\ \A m \in marked : delivered[m[1]]["new"][m[2]] >= 1

\* C5: called with an empty list of old books, the inline trigger sends nothing,
\* records no audit job and queues no dedup-set update, whatever the subscribers'
\* notification settings are.
C5_NoNotificationOnInitialAdd ==
    (wpc \in {"inline_loop", "finish"} /\ wOld.books = {}) =>
        /\ wpc = "finish"
        /\ wSent = 0
        /\ wJobs = 0
        /\ wOps = {}

C5_Witness ==
    /\ wpc = "finish"
    /\ wOld.books = {}
    /\ wCur.books # {}
    /\ \E u \in subs : notif[u] = AllOn

\* C6: with no change to books, users or entries in between, a new-item sweep that
\* follows another one finds no pending identifier for any entry it processes, so
\* at most one 'new item' notification per book reaches a user.
C6_SecondSweepFindsNothing ==
    /\ \A u \in Users, b \in Books : delivered[u]["new"][b] <= 1
    /\ (sweepRuns >= 1 /\ npc = "new_loop") => \A u \in Users : nPending[u] = {}

\* the second tick has processed the entry of u2, whose sets were empty before the
\* first tick (so everything visible was pending then), and found nothing pending
C6_Witness ==
    /\ sweepRuns = 1
    /\ npc = "new_loop"
    /\ nTodo = <<>>
    /\ Visible(nSer) # {}
    /\ \E o \in nOps : o.user = "u2" /\ o.field = "set_new"
    /\ eNew["u2"] = Visible(nSer)

\* the new-item sweep processes the entries of users with notifications enabled,
\* the new-item flag on and a destination (tasks.py 739-745)
NewSweepProcesses(u) == notif[u].enabled /\ notif[u].notify_new /\ notif[u].urls

StatusRank(st) == CASE st = "queued" -> 0 [] st = "running" -> 1 [] OTHER -> 2

\* C8: the status of a job document that exists before and after a step never
\* moves backwards on queued -> running -> done | error: a job that reached done
\* or error is never set to running (or queued), and a terminal status is never
\* changed again.
C8_StatusMovesForward ==
    [][\A j \in Jobs :
          (jobStatus[j] # "none" /\ jobStatus'[j] # "none")
              => /\ StatusRank(jobStatus'[j]) >= StatusRank(jobStatus[j])
                 /\ jobStatus[j] \in {"done", "error"} => jobStatus'[j] = jobStatus[j]]_vars

\* one job is done while the worker runs the handler of the next one
C8_Witness ==
    /\ jobStatus[1] = "done"
    /\ jobStatus[2] = "running"
    /\ \E t \in Threads : tpc[t] = "dispatch" /\ tJob[t] = 2

\* C9: a job whose handler threw or failed has the persisted status error.
C9_FailedJobMarkedError ==
    \A j \in Jobs : jobResult[j] = "error" => jobStatus[j] = "error"

\* C10: under any sequence of start(), stop(), ensure_scheduler_running() and
\* enqueue() calls at most one worker loop is alive and at most one job is in a
\* handler.
C10_SingleWorker ==
    /\ Cardinality({t \in Threads : IsAlive(tpc, t)}) <= 1
    /\ Cardinality({t \in Threads : tpc[t] \in {"handle", "dispatch", "except"}}) <= 1

\* the worker was stopped while its loop was in a handler, the stop flag was
\* cleared again by ensure_scheduler_running(), start() was called and a job waits
C10_Witness ==
    /\ \E t \in Threads : tpc[t] = "dispatch" /\ workerThread = t
    /\ ~stopFlag
    /\ schedAlive
    /\ queue # <<>>
    /\ \E t \in Threads : tpc[t] = "dead"


\* C11: jobs are started in the order of the enqueue() calls (job ids count the
\* calls): the queue holds its jobs in call order, every job that left the queue
\* was enqueued before every job still in it, and while the worker holds a job no
\* thread holds an earlier one.
C11_FifoOrder ==
    /\ \A p, q \in 1..Len(queue) : p < q => queue[p] < queue[q]
    /\ \A j \in 1..created : \A p \in 1..Len(queue) :
          ((\A r \in 1..Len(queue) : queue[r] # j) => j < queue[p])
    /\ \A t, t2 \in Threads :
          (tJob[t] # NoJob /\ tJob[t2] # NoJob) => tJob[t] = tJob[t2]

\* two jobs were enqueued before the worker took the first; the worker runs the
\* handler of the first while the second waits
C11_Witness ==
    /\ queue = <<2>>
    /\ \E t \in Threads : tpc[t] = "dispatch" /\ tJob[t] = 1
    /\ jobStatus[1] = "running"
    /\ jobStatus[2] = "queued"

\* C14: when the probe's parent product load fails, the probe job ends with status
\* error and next_refresh_at keeps the value it had.
C14_ParentFailureLeavesSchedule ==
    (wpc = "result" /\ ~wParentOk) => (wResult.status = "error" /\ sNextAt = Now)

\* C15: with B1 stored and a subscriber with both kinds on, a probe that discovers
\* B2 (published within the release window) reports changed, attempts one 'new
\* item' and one 'release' notification for the subscriber (each delivered once
\* when the channel works) and records B2 in both notified sets; a following probe
\* with the upstream unchanged reports not changed and sends nothing.
C15_DiscoverThenQuiet ==
    /\ (wpc = "result" /\ wOld.books = {"B1"} /\ wCur.books = {"B1", "B2"})
          => /\ wResult.changed
             /\ "B2" \in eNew["u1"] /\ "B2" \in eRel["u1"]
             /\ \E st \in {"done", "error"} :
                   <<"u1", "new", st>> \in audit /\ <<"u1", "release", st>> \in audit
             /\ <<"u1", "new", "done">> \in audit
                   => (delivered["u1"]["new"]["B2"] = 1 /\ delivered["u1"]["release"]["B2"] = 1)
    /\ (wpc = "result" /\ wOld.books = {"B1", "B2"} /\ wOld.rels = catalog)
          => (~wResult.changed /\ wSent = 0 /\ wJobs = 0)
    /\ \A u \in Users, k \in Kinds, b \in Books : delivered[u][k][b] <= 1

\* the second probe has ended after the first one discovered and announced B2
C15_Witness ==
    /\ wpc = "result"
    /\ probeRuns = MaxProbeRuns - 1
    /\ wOld.books = {"B1", "B2"}
    /\ ~wResult.changed
    /\ delivered["u1"]["new"]["B2"] = 1
    /\ delivered["u1"]["release"]["B2"] = 1
    /\ "B2" \in eNew["u1"] /\ "B2" \in eRel["u1"]

\* the schedule the last completed run left, read along the fetched_at order: every
\* value in (t, t + cycle], strictly increasing, consecutive values cycle/N apart
\* (up to the rounding to whole seconds)
SlotsSpread ==
    LET ord  == FetchedOrder(serFetched, Tracked(serCount))
        t    == rbPrevRef
        step == AUTO_REFRESH_CYCLE_SEC \div serCount
    IN  /\ \A k \in 1..Len(ord) :
              t < serNext[ord[k]] /\ serNext[ord[k]] <= t + AUTO_REFRESH_CYCLE_SEC
        /\ \A k \in 1..(Len(ord) - 1) :
              /\ serNext[ord[k]] < serNext[ord[k + 1]]
              /\ serNext[ord[k + 1]] - serNext[ord[k]] \in {step, step + 1}

\* a rebalance run has completed and fetched_at has not changed since it started
Rebalanced == rpc = "idle" /\ rbRuns >= 1 /\ ~rbChanged

\* C12 as stated: for any number N >= 1 of series, after rebalance(t) the values lie
\* in (t, t + cycle], strictly increase along the fetched_at order and are about
\* cycle/N apart.
C12_SlotsForAnyCount == Rebalanced => SlotsSpread

\* C12 amended: the same for 1 <= N <= cycle (the cycle counted in seconds).
C12_SlotsUpToCycle ==
    (Rebalanced /\ serCount <= AUTO_REFRESH_CYCLE_SEC) => SlotsSpread

\* a full collection whose fetched_at order is not the natural order was rebalanced
C12_Witness ==
    /\ Rebalanced
    /\ serCount = MaxSeries
    /\ serFetched[1] > serFetched[2]
    /\ serNext[2] < serNext[1]
    /\ \A s \in SeriesIds : serNext[s] # NoTime

\* C13: a rebalance run changes no series field but next_refresh_at, and a run with
\* the reference time of the run before it, with no change to the series in
\* between, leaves every next_refresh_at as that run set it.
C13_RebalanceIdempotent ==
    [][(rpc = "loop" /\ rpc' = "idle")
          => /\ serFetched' = serFetched /\ serCount' = serCount
             /\ (rbRuns >= 1 /\ rRef = rbPrevRef /\ ~rbPrevDirty /\ ~rbChanged)
                   => serNext' = serNext]_vars

\* the second run over an unchanged collection of several series, same reference
\* time, is about to write
C13_Witness ==
    /\ rpc = "loop"
    /\ Len(rOps) = Len(rCursor)
    /\ Len(rCursor) >= 2
    /\ rbRuns = 1
    /\ rRef = rbPrevRef
    /\ ~rbPrevDirty /\ ~rbChanged
    /\ serNext[rCursor[1]] = rOps[1].target

\* C16: two relationship lists that are permutations of each other, or differ only
\* in keys the comparison does not read, compare equal; with the identifier of one
\* relationship changed in one of them they compare unequal.
C16_OrderAndNoiseInvariant ==
    /\ "id" \notin relOps => RelationshipsEqual(relA, relB)
    /\ "id" \in relOps => ~RelationshipsEqual(relA, relB)

\* C17 as stated: a book is a release candidate exactly when its effective
\* publication time is <= now and at most 24 hours before now.
C17_WithinTwentyFourHours ==
    winCand # "none"
        => (winCand = "yes"
              <=> (winPub # NoPub /\ winPub <= winNow /\ winNow - winPub <= HoursPerDay))

\* C17 amended: a book is a release candidate exactly when its effective
\* publication time is <= now and falls on today's or yesterday's calendar date;
\* a book published an hour ago is one, a book published three days ago, due in
\* an hour or without publication time is not.
C17_TodayOrYesterday ==
    winCand # "none"
        => /\ winCand = "yes"
                 <=> /\ winPub # NoPub
                     /\ winPub <= winNow
                     /\ DateOf(winPub) \in {DateOf(winNow), DateOf(winNow) - 1}
           /\ winPub = winNow - 1 => winCand = "yes"
           /\ winPub = winNow + 1 => winCand = "no"
           /\ (winPub # NoPub /\ winPub <= winNow - 3 * HoursPerDay) => winCand = "no"
           /\ winPub = NoPub => winCand = "no"

\* a book published yesterday, more than 24 hours ago, was taken as a candidate
C17_Witness ==
    /\ winCand = "yes"
    /\ winNow - winPub > HoursPerDay
    /\ DateOf(winPub) = DateOf(winNow) - 1

\* C18: a send is attempted (and its audit job recorded) for an entry only if the
\* owning user has notifications enabled and a destination URL; a 'new item'
\* message only if notify_new_audiobook is on, a 'release' message only if
\* notify_release is on, whichever of the inline trigger and the sweeps sends.
C18_SendsRespectSettings ==
    /\ \A row \in audit :
          /\ notif[row[1]].enabled /\ notif[row[1]].urls
          /\ row[2] = "new" => notif[row[1]].notify_new
          /\ row[2] = "release" => notif[row[1]].notify_rel
    /\ \A u \in Users, b \in Books :
          /\ delivered[u]["new"][b] > 0
                => (notif[u].enabled /\ notif[u].urls /\ notif[u].notify_new)
          /\ delivered[u]["release"][b] > 0
                => (notif[u].enabled /\ notif[u].urls /\ notif[u].notify_rel)

\* a subscriber with only the new-item flag on was told about B2, which is also
\* inside the release window, and got no release message
C18_Witness ==
    /\ notif["u1"] = NewOnly
    /\ delivered["u1"]["new"]["B2"] = 1
    /\ delivered["u1"]["release"]["B2"] = 0
    /\ "B2" \in sBooks
    /\ sweepRuns >= 1

\* a message of kind k about ids is attempted for u by the inline trigger in this step
InlineAttempt(u, k, ids) ==
    /\ wpc = "inline_loop"
    /\ [user |-> u, field |-> k, ids |-> ids] \in wOps' \ wOps

\* a release message about ids is attempted for u by the release sweep in this step
SweepAttempt(u, ids) ==
    /\ npc = "rel_loop"
    /\ [user |-> u, field |-> "release", ids |-> ids] \in nOps' \ nOps

\* the attempt did not reach the channel: a count that could still grow did not
NotDelivered(u, k, ids) ==
    \E b \in ids : /\ delivered[u][k][b] < CountCap
                   /\ delivered'[u][k][b] = delivered[u][k][b]

C20_StopTerminatesLoops ==
    /\ stopFlag ~> ~WorkerRunning(workerThread, tpc)
    /\ stopFlag ~> ~schedAlive
    /\ stopFlag ~> ~notifAlive

\* the last writer of next_refresh_at was a call of reschedule_all_series
Rescheduled == rsCount # NoTime

\* the values reschedule_all_series assigned lie in the 24 hours from its now and
\* consecutive ones, in sorted order, are at least 0.4 * cycle / N apart
RescheduleSpread ==
    /\ rsCount = serCount
    /\ \A s \in Tracked(serCount) :
          rsRef <= serNext[s] /\ serNext[s] <= rsRef + AUTO_REFRESH_CYCLE_SEC
    /\ \A s, o \in Tracked(serCount) :
          s # o => \/ 10 * serCount * (serNext[s] - serNext[o]) >= 4 * AUTO_REFRESH_CYCLE_SEC
                   \/ 10 * serCount * (serNext[o] - serNext[s]) >= 4 * AUTO_REFRESH_CYCLE_SEC

C23_RescheduleIsRebalance ==
    [][(rpc = "idle" /\ rpc' = "idle" /\ serNext' # serNext)
          => LET ord == FetchedOrder(serFetched', Tracked(serCount'))
             IN  \A k \in 1..Len(ord) :
                    serNext'[ord[k]] = rsRef' + RebalanceOffset(k, serCount')]_vars

\* the worker has taken job j from the queue and its handler has ended
Handled(j) ==
    /\ j \in 1..created
    /\ \A i \in 1..Len(queue) : queue[i] # j
    /\ \A t \in Threads : tJob[t] # j

\* job j is no longer waiting in the queue
Taken(j) ==
    /\ j \in 1..created
    /\ \A i \in 1..Len(queue) : queue[i] # j

C24_TickEnqueuesDue ==
    [][(scPc = "tick" /\ scPc' = "sleep")
          => LET due == {s \in Tracked(serCount) :
                            serNext[s] # NoTime /\ TimeLeq(NextRefreshAt(s), tkNow)}
             IN  /\ tkEnq' \subseteq due
                 /\ Cardinality(tkEnq') <= DUE_LIMIT
                 /\ Cardinality(due) <= DUE_LIMIT => tkEnq' = due
                 /\ \A d \in tkEnq', e \in due \ tkEnq' :
                       TimeLeq(NextRefreshAt(d), NextRefreshAt(e))]_vars

\* C25: a scheduler loop that reads auto refresh as disabled on a tick leaves the
\* loop and ends without enqueuing; no probe is enqueued by the scheduler while no
\* loop runs, and a loop is started again only by ensure_scheduler_running with the
\* flag enabled.
C25_DisabledLoopExits ==
    [][/\ (scPc = "settings" /\ ~autoOn /\ scPc' # scPc) => (scPc' = "exiting" /\ tkEnq' = tkEnq)
       /\ scPc = "exiting" => (scPc' \in {"exiting", "dead"} /\ tkEnq' = tkEnq)
       /\ scPc \in {"dead", "none"}
             => /\ tkEnq' = tkEnq
                /\ scPc' # scPc => (scPc' = "init" /\ ~autoOn /\ autoOn')
       /\ tkEnq' # tkEnq => (scPc = "tick" /\ SchedulerAlive(scPc'))
      ]_vars

\* the loop had enqueued probes, then read the flag as off and ended, with no stop
\* requested
C25_Witness ==
    /\ scPc = "dead"
    /\ ~autoOn
    /\ ~stopFlag
    /\ tkEnq # {}

\* C26: after the flag went from off to on and ensure_scheduler_running(rebalance =
\* True) has returned, a scheduler loop runs for as long as the flag stays enabled
\* and no stop is requested, also when the loop before it is just ending because it
\* read the flag as off.
C26_EnabledMeansLoopRunning ==
    (autoOn /\ ~stopFlag) => scPc \in {"init", "test", "settings", "tick", "sleep"}

\* C27: a probe that finds the fresh relationships equal to the stored ones while
\* at least one book is stored does no child expansion (it goes straight to the
\* end of the job, without the inline trigger) and none of its steps changes the
\* stored books, their hidden flags or the subscribers' notified sets; the raw
\* parent snapshot and next_refresh_at are all it may write.
C27_SkipBranchKeepsBooks ==
    [][/\ (wpc = "fetch" /\ wpc' # wpc /\ ~wChanged' /\ wOld.books # {})
             => /\ wpc' = "finish"
                /\ sBooks' = sBooks /\ sHidden' = sHidden
                /\ wCur' = wOld
                /\ sRaw' \in {sRaw, catalog}
                /\ UNCHANGED <<sNextAt, eNew, eRel, eInit, delivered, audit, marked>>
       /\ (wpc \in {"finish", "result"} /\ wpc' # wpc /\ ~wChanged /\ wOld.books # {})
             => UNCHANGED <<sBooks, sHidden, sRaw, eNew, eRel, eInit, delivered, audit, marked>>
      ]_vars

\* a probe loaded the parent, found the relationships as stored with a book stored,
\* and is at the end of the job
C27_Witness ==
    /\ wpc = "result"
    /\ wParentOk
    /\ ~wChanged
    /\ wOld.books # {}
    /\ wOld.rels = catalog
    /\ sBooks = wOld.books

\* C28: a handled probe sets next_refresh_at of the probed series and of its
\* resolved parent to the time it read plus AUTO_REFRESH_CYCLE_SEC and touches
\* fetched_at of the probed series; and while next_refresh_at of a series is what
\* its last handled probe wrote, no tick of the scheduler earlier than that time
\* plus one cycle enqueues the series.
C28_HandledProbeNotDueWithinCycle ==
    [][/\ \A s \in SeriesIds :
             prAt'[s] # prAt[s]
                => /\ prAt'[s] = tkNow
                   /\ [sec |-> serNext'[s], micro |-> serMicro'[s]]
                         = PlusSeconds(tkNow, AUTO_REFRESH_CYCLE_SEC)
                   /\ \E q \in SeriesIds :
                         /\ prAt'[q] = tkNow
                         /\ serFetched'[q] > serFetched[q]
                         /\ \A o \in SeriesIds : serFetched'[o] <= serFetched'[q]
       /\ (scPc = "tick" /\ scPc' = "sleep")
             => \A s \in tkEnq' :
                   (prAt[s] # NoStamp
                      /\ NextRefreshAt(s) = PlusSeconds(prAt[s], AUTO_REFRESH_CYCLE_SEC))
                   => TimeLeq(PlusSeconds(prAt[s], AUTO_REFRESH_CYCLE_SEC), tkNow)
      ]_vars

\* C29: when a fetch_series_books job has added book ids to a series that had
\* stored books, every subscriber with new-item notifications enabled has been
\* sent a 'new item' notification of the new visible ids (delivered or recorded
\* as failed) and has them in notified_new_asins.
C29_ManualFetchNotifies ==
    (wpc = "fetched" /\ wOld.books # {})
       => \A u \in subs :
             (notif[u].enabled /\ notif[u].notify_new /\ notif[u].urls)
                => \A b \in Visible(wCur) \ wOld.books :
                      /\ b \in eNew[u]
                      /\ \/ delivered[u]["new"][b] > 0
                         \/ \E row \in audit : row[1] = u /\ row[2] = "new"

\* C30: when the parent product cannot be loaded during a fetch_series_books job,
\* the job result carries an error and the stored books and next_refresh_at of
\* the series are what they were before the job.
C30_UpstreamFailureLeavesSeries ==
    (wpc = "fetched" /\ ~wParentOk)
       => /\ wResult.error
          /\ sBooks = wOld.books
          /\ sNextAt = Now

\* C31: the effective publication time of a book is its publication_datetime when
\* present, otherwise raw.publication_datetime when present, otherwise 00:00 UTC
\* of its release date; a book with none of them or with unparseable values has
\* no effective time and is no release candidate.  (A field that is present but
\* not parseable either ends the chain with no time or passes on to the next
\* field: both readings are allowed here.)
C31_EffectivePublicationTime ==
    LET b == winBook
        byPresence == IF ~Falsy(b.pub) THEN ParseIsoUtc(b.pub)
                      ELSE IF ~Falsy(b.raw) THEN ParseIsoUtc(b.raw)
                      ELSE ReleaseMidnight(b.rel)
        byUse      == IF ParseIsoUtc(b.pub) # NoPub THEN ParseIsoUtc(b.pub)
                      ELSE IF ParseIsoUtc(b.raw) # NoPub THEN ParseIsoUtc(b.raw)
                      ELSE ReleaseMidnight(b.rel)
    IN  /\ winCand # "unread" => winPub \in {byPresence, byUse}
        /\ (winCand \notin {"unread", "none"} /\ winPub = NoPub) => winCand = "no"

\* C32: a delete_series job for series S removes the Series document S and every
\* LibraryEntry of S and nothing else (no other series document, no entry of
\* another series), and is finished with the number of documents each of the two
\* deletions removed.
C32_DeleteRemovesSeriesAndEntries ==
    [][/\ (dsPc = "run" /\ dsPc' = "library")
             => /\ dsSeries' = dsSeries \ {dsCur.asin}
                /\ dsEntries' = dsEntries
                /\ dsCur'.series_deleted = Cardinality(dsSeries \ dsSeries')
       /\ (dsPc = "library" /\ dsPc' = "idle")
             => /\ dsSeries' = dsSeries
                /\ \A e \in dsEntries : e \in dsEntries' <=> e[2] # dsCur.asin
                /\ dsEntries' \subseteq dsEntries
                /\ dsRes'.asin = dsCur.asin
                /\ dsRes'.series_deleted = dsCur.series_deleted
                /\ dsRes'.library_entries_removed = Cardinality(dsEntries \ dsEntries')
      ]_vars

\* a delete job of S1 removed the document and two entries while S2 and its
\* entries are still there
C32_Witness ==
    /\ dsRes = [asin |-> "S1", series_deleted |-> 1, library_entries_removed |-> 2]
    /\ dsSeries = {"S2"}
    /\ dsEntries = {<<"u1", "S2">>, <<"u2", "S2">>}

\* C36: once a delete_series job for S has finished, no Series document S exists
\* until a user subscribes to S again, whatever probe or fetch jobs for S are
\* handled after the delete.
C36_DeletedSeriesStaysDeleted ==
    \A s \in dsGone : s \notin dsSeries

\* C33: job retention passes its date test at most once per UTC day, and the
\* deletion of a run leaves at most max_job_history documents, every one of them
\* newer than every document it removed, whatever other threads insert while the
\* prune runs.
C33_PruneKeepsNewest ==
    [][/\ prRuns' <= 1
       /\ (prPc = "delete" /\ prPc' = "idle")
             => /\ Cardinality(prJobs') <= MaxKeep
                /\ \A k \in prJobs', r \in prJobs \ prJobs' : k > r
      ]_vars

\* C34: after set_series_books no two stored books have the same lower-cased
\* title; every stored book is one of the incoming books, every title of an
\* incoming book is kept once, and the book kept for a title has the latest
\* parseable release date among the incoming books of that title.
C34_StoredTitlesUnique ==
    ddPc = "stored"
       => /\ \A i, j \in 1..Len(ddStored) :
                Lower(ddStored[i].title) = Lower(ddStored[j].title) => i = j
          /\ \A i \in 1..Len(ddStored) :
                /\ \E k \in 1..Len(ddIn) : ddIn[k] = ddStored[i]
                /\ \A k \in 1..Len(ddIn) :
                      (Lower(ddIn[k].title) = Lower(ddStored[i].title) /\ ddIn[k].date # NoTime)
                         => (ddStored[i].date # NoTime /\ ddStored[i].date >= ddIn[k].date)
          /\ \A k \in 1..Len(ddIn) :
                ddIn[k].title # ""
                   => \E i \in 1..Len(ddStored) : Lower(ddStored[i].title) = Lower(ddIn[k].title)

\* "Dune" without a date, "dune" of day 1 and "Dune" of day 2 came in; the one of
\* day 2 is the one stored
C34_Witness ==
    /\ ddPc = "stored"
    /\ Len(ddIn) = 3
    /\ ddIn[1].title = "Dune" /\ ddIn[1].date = NoTime
    /\ ddIn[2].title = "dune" /\ ddIn[2].date = 1
    /\ ddIn[3].title = "Dune" /\ ddIn[3].date = 2
    /\ ddStored = <<ddIn[3]>>

\* the probe jobs of series s that are queued or running
PqPending(s) ==
    Cardinality({i \in 1..Len(pqQueue) : pqQueue[i] = s}) + (IF pqRun = s THEN 1 ELSE 0)

\* C35: at any time at most one refresh_series_probe job of a series is queued
\* or running.
C35_OneProbePerSeries == \A s \in PqSeries : PqPending(s) <= 1

\* C39: with the scheduler ticking and the worker handling jobs fairly, every
\* series whose next_refresh_at has elapsed eventually has a probe handled,
\* whichever probes raise: as the series a probe was handled for only grow and
\* no series becomes due again within the cycle, a moment comes when every due
\* series has had its probe.
C39_DueSeriesEventuallyProbed == <>(PqDue(pqNext) \subseteq pqProbed)

\* C37: no step sends a user a message naming a book that is hidden in the
\* stored series, and no step records such a book in notified_new_asins or
\* notified_releases.
C37_HiddenBooksNeverNotified ==
    [][\A u \in Users, b \in sHidden :
          /\ \A k \in Kinds : delivered'[u][k][b] = delivered[u][k][b]
          /\ b \in eNew'[u] => b \in eNew[u]
          /\ b \in eRel'[u] => b \in eRel[u]]_vars

\* C38: every job the worker has taken from the queue reaches a terminal status.
\* Nothing but the worker thread holding a job writes its document, so when the
\* handler of a job has returned and the thread lets go of the job, the document
\* is not left in status running.
C38_HandledJobNotLeftRunning ==
    [][\A t \in Threads :
          (tpc[t] = "dispatch" /\ tJob[t] # NoJob /\ tJob'[t] = NoJob)
             => jobStatus'[tJob[t]] # "running"]_vars

\* C40: a step that puts a job on the queue is the step of an enqueue_* call that
\* has inserted the job's document with status queued (the document did not exist
\* before) and that returns the id of that document; and a step that turns a
\* document's status into running finds it queued.
C40_QueuedBeforeEnqueuedAndRunning ==
    [][/\ \A j \in Jobs :
             (Len(queue') = Len(queue) + 1 /\ queue'[Len(queue')] = j)
                => /\ jobStatus[j] = "none"
                   /\ jobStatus'[j] = "queued"
                   /\ enqRet' = j
       /\ \A j \in Jobs :
             (jobStatus'[j] = "running" /\ jobStatus[j] # "running")
                => jobStatus[j] = "queued"]_vars

\* the second job enqueued was returned by its call and is being run by a worker
\* thread, its document marked running
C40_Witness ==
    /\ enqRet = 2
    /\ jobStatus[2] = "running"
    /\ \E t \in Threads : tJob[t] = 2 /\ tpc[t] = "dispatch"

====
